---- MODULE Spec2Model ----
(***************************************************************************)
(* A model of the registry-hive parser core: the key filter                *)
(* (src/src/filter.rs), the base-block header parser and its XOR-32        *)
(* checksum (src/src/reg_header.rs, src/src/base_block.rs) and the enum    *)
(* decoder generated by impl_enum_from_value (src/src/macros.rs).          *)
(*                                                                         *)
(* Strings are sequences of Unicode scalar values (integers), byte buffers *)
(* are records [len, fill, at]: `at` holds the bytes set apart, every      *)
(* other byte below `len` is `fill`.                                       *)
(***************************************************************************)
EXTENDS Integers, Sequences, FiniteSets, TLC

VARIABLES
    builder,     \* filter.rs: the RegQueryBuilder under construction, or NoBuilder
    query_src,   \* the &str last given to RegQueryBuilder::from_key
    filter,      \* filter.rs: the Filter ([reg_query |-> NoQuery] is Filter::new())
    cell,        \* the CellKeyNode last given to Filter::check_cell
    state,       \* the State given with it (its root-name offset)
    flags,       \* the FilterFlags last returned by Filter::check_cell
    children_src, \* the bool last given to RegQueryBuilder::return_child_keys, <<>> before that
    sub_keys,    \* what Filter::return_sub_keys last returned, <<>> before that
    input,       \* the &[u8] given to the header parsers and to calculate_checksum
    parsed,      \* the IResult last returned by a header parser
    xsum,        \* what calculate_checksum last returned
    enum_arg,    \* the enum type and the u32 last given to from_value
    enum_ret,    \* the variant from_value last returned
    logs,        \* the Logs given to from_value and to from_bits_checked
    overflow_checks, \* whether the build checks integer overflow (debug) or wraps (release)
    offsets,     \* what SubKeyListLf::get_offset_list last returned
    hive,        \* the sk cells of the file buffer given to read_cell_key_security
    walk,        \* read_cell_key_security: its locals and what it returned
    parser,      \* the Parser of the session: the keys of its hive, in pre-order
    py,          \* py_reg_parser.rs: the PyRegParser made of it and what it last returned
    iters,       \* the key iterators handed out, in the order of the requests
    last_op      \* the operation that ran last

sub_vars == <<children_src, sub_keys>>

filter_vars == <<builder, query_src, filter, cell, state, flags, sub_vars>>

header_vars == <<input, parsed, xsum>>

enum_vars == <<enum_arg, enum_ret, logs>>

decoder_vars == <<overflow_checks, offsets>>

walk_vars == <<hive, walk>>

py_vars == <<parser, py, iters>>

other_vars == <<decoder_vars, walk_vars, py_vars>>

vars == <<builder, query_src, filter, cell, state, flags, children_src, sub_keys, input, parsed, xsum,
          enum_arg, enum_ret, logs, overflow_checks, offsets, hive, walk, parser, py, iters, last_op>>

----------------------------------------------------------------------------
(* Bounds of the model *)

\* longest &str given to from_key
MaxQueryLen == 2

\* longest key path of a cell given to check_cell
MaxPathLen == 3

\* largest root-name offset held by the State
MaxRootOffset == 1

\* the most components of a query written as a struct literal
MaxComponents == 2

\* longest input given to a header parser
MaxInputLen == 4100

\* most bytes of a checksummed buffer that differ from its fill
MaxPokes == 2

\* most entries of the warning log
MaxLogs == 2

\* the most items an lf cell of the model holds
MaxItems == 2

\* the most cells in the buffer the sk walk reads
MaxCells == 2

\* the most keys a hive of the model holds
MaxKeys == 2

\* the most key iterators handed out in a run
MaxIters == 3

----------------------------------------------------------------------------
(* Strings *)

\* 'a', 'A', U+00E9 (e acute), U+00C9 (E acute) and the path separator '\'
Alphabet == {97, 65, 233, 201, 92}

Backslash == 92

RECURSIVE Strings(_)
Strings(n) ==
    IF n = 0 THEN {<<>>}
    ELSE LET shorter == Strings(n - 1)
         IN  shorter \cup {Append(s, c) : s \in {t \in shorter : Len(t) = n - 1}, c \in Alphabet}

\* char::to_ascii_lowercase: only 'A'..'Z' change
char_to_ascii_lowercase(c) == IF c >= 65 /\ c <= 90 THEN c + 32 ELSE c

\* str::to_ascii_lowercase
to_ascii_lowercase(s) == [i \in 1..Len(s) |-> char_to_ascii_lowercase(s[i])]

\* str::trim_end_matches(c)
RECURSIVE trim_end_matches(_, _)
trim_end_matches(s, c) ==
    IF Len(s) > 0 /\ s[Len(s)] = c
    THEN trim_end_matches(SubSeq(s, 1, Len(s) - 1), c)
    ELSE s

\* str::split(c), collected: the empty string gives one empty segment
RECURSIVE split(_, _)
split(s, c) ==
    IF \E i \in 1..Len(s) : s[i] = c
    THEN LET i == CHOOSE k \in 1..Len(s) : s[k] = c /\ \A j \in 1..(k - 1) : s[j] # c
         IN  <<SubSeq(s, 1, i - 1)>> \o split(SubSeq(s, i + 1, Len(s)), c)
    ELSE <<s>>

\* &s[offset..]
str_from(s, offset) == SubSeq(s, offset + 1, Len(s))

----------------------------------------------------------------------------
(* filter.rs: FilterFlags *)

FILTER_NO_MATCH == 1

FILTER_ITERATE_KEYS == 2

FILTER_KEY_MATCH == 4

\* FilterFlags::contains for a single-bit flag
contains(fl, flag) == (fl \div flag) % 2 = 1

\* the | of two distinct single-bit flags
bit_or(f1, f2) == f1 + f2

NoFlags == 0

----------------------------------------------------------------------------
(* filter.rs: RegQueryBuilder, RegQuery *)

NoResult == [tag |-> "None"]

NoBuilder == [none |-> TRUE]

NoQuery == [none |-> TRUE]

ComponentString(s) == [kind |-> "ComponentString", s |-> s]

\* a bug: the query keeps the case it was written in
from_key_keeps_case(key_path) ==
    LET segments == split(trim_end_matches(key_path, Backslash), Backslash)
    IN  [key_path          |-> [i \in 1..Len(segments) |-> ComponentString(segments[i])],
         key_path_has_root |-> FALSE,
         children          |-> FALSE]

from_key(key_path) ==
    LET segments == split(to_ascii_lowercase(trim_end_matches(key_path, Backslash)), Backslash)
    IN  [key_path          |-> [i \in 1..Len(segments) |-> ComponentString(segments[i])],
         key_path_has_root |-> FALSE,
         children          |-> FALSE]

key_path_has_root(b, v) == [b EXCEPT !.key_path_has_root = v]

return_child_keys(b, v) == [b EXCEPT !.children = v]

build(b) ==
    [key_path          |-> b.key_path,
     key_path_has_root |-> b.key_path_has_root,
     children          |-> b.children]

\* A Regex of the shapes lit, ^lit, lit$ and ^lit$ for a literal `lit`
Regex_new(start, lit, end) == [start |-> start, lit |-> lit, end |-> end]

\* Regex::is_match: the pattern is found somewhere in the text
is_match(r, text) ==
    \E p \in 1..(Len(text) - Len(r.lit) + 1) :
        /\ SubSeq(text, p, p + Len(r.lit) - 1) = r.lit
        /\ r.start => p = 1
        /\ r.end => p + Len(r.lit) - 1 = Len(text)

ComponentRegex(r) == [kind |-> "ComponentRegex", r |-> r]

\* a bug: a key-path segment the regex does not match is passed over
RECURSIVE match_segments_regex_passes(_, _, _, _)
match_segments_regex_passes(segs, i, comps, j) ==
    IF i > Len(segs)
    THEN IF j > Len(comps)
         THEN bit_or(FILTER_ITERATE_KEYS, FILTER_KEY_MATCH)
         ELSE FILTER_ITERATE_KEYS
    ELSE IF j > Len(comps)
         THEN FILTER_NO_MATCH
         ELSE IF comps[j].kind = "ComponentString"
              THEN IF comps[j].s # to_ascii_lowercase(segs[i])
                   THEN FILTER_NO_MATCH
                   ELSE match_segments_regex_passes(segs, i + 1, comps, j + 1)
              ELSE match_segments_regex_passes(segs, i + 1, comps, j + 1)

\* a bug: a key path that ends before the query is taken for a match
RECURSIVE match_segments_prefix_matches(_, _, _, _)
match_segments_prefix_matches(segs, i, comps, j) ==
    IF i > Len(segs)
    THEN bit_or(FILTER_ITERATE_KEYS, FILTER_KEY_MATCH)
    ELSE IF j > Len(comps)
         THEN FILTER_NO_MATCH
         ELSE IF comps[j].kind = "ComponentString"
              THEN IF comps[j].s # to_ascii_lowercase(segs[i])
                   THEN FILTER_NO_MATCH
                   ELSE match_segments_prefix_matches(segs, i + 1, comps, j + 1)
              ELSE IF is_match(comps[j].r, to_ascii_lowercase(segs[i]))
                   THEN match_segments_prefix_matches(segs, i + 1, comps, j + 1)
                   ELSE FILTER_NO_MATCH

\* a bug: a key path that ends before the query is not descended into
RECURSIVE match_segments_prefix_pruned(_, _, _, _)
match_segments_prefix_pruned(segs, i, comps, j) ==
    IF i > Len(segs)
    THEN IF j > Len(comps)
         THEN bit_or(FILTER_ITERATE_KEYS, FILTER_KEY_MATCH)
         ELSE FILTER_NO_MATCH
    ELSE IF j > Len(comps)
         THEN FILTER_NO_MATCH
         ELSE IF comps[j].kind = "ComponentString"
              THEN IF comps[j].s # to_ascii_lowercase(segs[i])
                   THEN FILTER_NO_MATCH
                   ELSE match_segments_prefix_pruned(segs, i + 1, comps, j + 1)
              ELSE IF is_match(comps[j].r, to_ascii_lowercase(segs[i]))
                   THEN match_segments_prefix_pruned(segs, i + 1, comps, j + 1)
                   ELSE FILTER_NO_MATCH

\* a bug: a key path that matches the whole query gets FILTER_KEY_MATCH alone
RECURSIVE match_segments_match_alone(_, _, _, _)
match_segments_match_alone(segs, i, comps, j) ==
    IF i > Len(segs)
    THEN IF j > Len(comps)
         THEN FILTER_KEY_MATCH
         ELSE FILTER_ITERATE_KEYS
    ELSE IF j > Len(comps)
         THEN FILTER_NO_MATCH
         ELSE IF comps[j].kind = "ComponentString"
              THEN IF comps[j].s # to_ascii_lowercase(segs[i])
                   THEN FILTER_NO_MATCH
                   ELSE match_segments_match_alone(segs, i + 1, comps, j + 1)
              ELSE IF is_match(comps[j].r, to_ascii_lowercase(segs[i]))
                   THEN match_segments_match_alone(segs, i + 1, comps, j + 1)
                   ELSE FILTER_NO_MATCH

\* The for loop of check_key_match: segs[i..] are the key-path segments still
\* to come, comps[j] is filter_path_segment (None when j is past the end).
RECURSIVE match_segments(_, _, _, _)
match_segments(segs, i, comps, j) ==
    IF i > Len(segs)
    THEN IF j > Len(comps)
         THEN bit_or(FILTER_ITERATE_KEYS, FILTER_KEY_MATCH)
         ELSE FILTER_ITERATE_KEYS
    ELSE IF j > Len(comps)
         THEN FILTER_NO_MATCH
         ELSE IF comps[j].kind = "ComponentString"
              THEN IF comps[j].s # to_ascii_lowercase(segs[i])
                   THEN FILTER_NO_MATCH
                   ELSE match_segments(segs, i + 1, comps, j + 1)
              ELSE IF is_match(comps[j].r, to_ascii_lowercase(segs[i]))
                   THEN match_segments(segs, i + 1, comps, j + 1)
                   ELSE FILTER_NO_MATCH

\* a bug: a query that runs out of segments lets the rest of the key path pass
RECURSIVE match_segments_exhausted_passes(_, _, _, _)
match_segments_exhausted_passes(segs, i, comps, j) ==
    IF i > Len(segs)
    THEN IF j > Len(comps)
         THEN bit_or(FILTER_ITERATE_KEYS, FILTER_KEY_MATCH)
         ELSE FILTER_ITERATE_KEYS
    ELSE IF j > Len(comps)
         THEN FILTER_ITERATE_KEYS
         ELSE IF comps[j].s # to_ascii_lowercase(segs[i])
              THEN FILTER_NO_MATCH
              ELSE match_segments_exhausted_passes(segs, i + 1, comps, j + 1)

check_key_match_exhausted_passes(q, key_name, root_key_name_offset) ==
    LET offset == IF q.key_path_has_root THEN 0 ELSE root_key_name_offset
    IN  match_segments_exhausted_passes(split(str_from(key_name, offset), Backslash), 1, q.key_path, 1)

\* a bug: key_path_has_root is not looked at
check_key_match_keeps_offset(q, key_name, root_key_name_offset) ==
    match_segments(split(str_from(key_name, root_key_name_offset), Backslash), 1, q.key_path, 1)

\* a bug: the last segment of the key path alone is matched
check_key_match_last_segment(q, key_name, root_key_name_offset) ==
    LET offset == IF q.key_path_has_root THEN 0 ELSE root_key_name_offset
        segs   == split(str_from(key_name, offset), Backslash)
    IN  match_segments(<<segs[Len(segs)]>>, 1, q.key_path, 1)

RegQuery_check_key_match(q, key_name, root_key_name_offset) ==
    LET offset == IF q.key_path_has_root THEN 0 ELSE root_key_name_offset
    IN  match_segments(split(str_from(key_name, offset), Backslash), 1, q.key_path, 1)

----------------------------------------------------------------------------
(* filter.rs: Filter; the cell and the state it is given *)

\* CellKeyNode::is_key_root
is_key_root(c) == c.is_key_root

\* CellKeyNode::lowercase: the lower-cased key path
lowercase(c) == to_ascii_lowercase(c.path)

\* State::get_root_path_offset: the offset of the key path past the root name
get_root_path_offset(st, key_path) == st.root_path_offset

Filter_new == [reg_query |-> NoQuery]

from_path(find_path) == [reg_query |-> find_path]

is_valid(f) == f.reg_query # NoQuery

match_key(f, st, key_path) ==
    IF f.reg_query # NoQuery
    THEN RegQuery_check_key_match(f.reg_query, key_path, get_root_path_offset(st, key_path))
    ELSE FILTER_ITERATE_KEYS

\* a bug: every key is answered as the root key is
match_cell_any_key_as_root(f, st, c) ==
    IF f.reg_query # NoQuery /\ ~f.reg_query.key_path_has_root
    THEN FILTER_ITERATE_KEYS
    ELSE match_key(f, st, lowercase(c))

\* a bug: the root key is never matched, whatever key_path_has_root says
match_cell_root_always_iterates(f, st, c) ==
    IF is_key_root(c) THEN FILTER_ITERATE_KEYS ELSE match_key(f, st, lowercase(c))

match_cell(f, st, c) ==
    IF is_key_root(c) /\ f.reg_query # NoQuery /\ ~f.reg_query.key_path_has_root
    THEN FILTER_ITERATE_KEYS
    ELSE match_key(f, st, lowercase(c))

\* a bug: a filter without a query prunes every key
check_cell_no_query_prunes(f, st, c) ==
    IF is_valid(f) THEN match_cell(f, st, c) ELSE FILTER_NO_MATCH

check_cell(f, st, c) ==
    IF is_valid(f) THEN match_cell(f, st, c) ELSE FILTER_ITERATE_KEYS

\* a bug: the keys below a match are returned for every query
return_sub_keys_of_any_query(f) == f.reg_query # NoQuery

\* Filter::return_sub_keys
return_sub_keys(f) == IF f.reg_query # NoQuery THEN f.reg_query.children ELSE FALSE

----------------------------------------------------------------------------
(* The filter's operations *)

NoCell == [none |-> TRUE]

NoState == [none |-> TRUE]

FilterIdle ==
    /\ builder = NoBuilder
    /\ query_src = <<>>
    /\ filter = Filter_new
    /\ cell = NoCell
    /\ state = NoState
    /\ flags = NoFlags
    /\ children_src = <<>>
    /\ sub_keys = <<>>

\* RegQueryBuilder::from_key(key_path)
FromKey ==
    /\ builder = NoBuilder
    /\ ~is_valid(filter)
    /\ cell = NoCell
    /\ \E s \in Strings(MaxQueryLen) :
          /\ builder' = from_key(s)
          /\ query_src' = s
    /\ last_op' = "from_key"
    /\ UNCHANGED <<filter, cell, state, flags, sub_vars, header_vars, enum_vars, other_vars>>

\* RegQueryBuilder::key_path_has_root(v)
KeyPathHasRoot ==
    /\ builder # NoBuilder
    /\ last_op = "from_key"
    /\ \E v \in BOOLEAN : builder' = key_path_has_root(builder, v)
    /\ last_op' = "key_path_has_root"
    /\ UNCHANGED <<query_src, filter, cell, state, flags, sub_vars, header_vars, enum_vars, other_vars>>

\* RegQueryBuilder::return_child_keys(v)
ReturnChildKeys ==
    /\ builder # NoBuilder
    /\ last_op \in {"from_key", "key_path_has_root"}
    /\ \E v \in BOOLEAN :
          /\ builder' = return_child_keys(builder, v)
          /\ children_src' = <<v>>
    /\ last_op' = "return_child_keys"
    /\ UNCHANGED <<query_src, filter, cell, state, flags, sub_keys, header_vars, enum_vars, other_vars>>

\* Filter::from_path(builder.build()): build consumes the builder
BuildFromPath ==
    /\ builder # NoBuilder
    /\ filter' = from_path(build(builder))
    /\ builder' = NoBuilder
    /\ last_op' = "from_path"
    /\ UNCHANGED <<query_src, cell, state, flags, sub_vars, header_vars, enum_vars, other_vars>>

\* Filter::check_cell(state, cell)
CheckCell ==
    /\ builder = NoBuilder
    /\ cell = NoCell
    /\ \E p \in Strings(MaxPathLen), r \in BOOLEAN, o \in 0..MaxRootOffset :
          /\ o <= Len(p)
          /\ cell' = [path |-> p, is_key_root |-> r]
          /\ state' = [root_path_offset |-> o]
          /\ flags' = check_cell(filter, state', cell')
    /\ last_op' = "check_cell"
    /\ UNCHANGED <<builder, query_src, filter, sub_vars, header_vars, enum_vars, other_vars>>

\* Filter::return_sub_keys()
ReturnSubKeys ==
    /\ sub_keys = <<>>
    /\ cell = NoCell
    /\ sub_keys' = <<return_sub_keys(filter)>>
    /\ last_op' = "return_sub_keys"
    /\ UNCHANGED <<builder, query_src, filter, cell, state, flags, children_src,
                   header_vars, enum_vars, other_vars>>

BuilderNext ==
    \/ FromKey
    \/ KeyPathHasRoot
    \/ ReturnChildKeys
    \/ BuildFromPath
    \/ ReturnSubKeys

FilterNext ==
    \/ FromKey
    \/ KeyPathHasRoot
    \/ ReturnChildKeys
    \/ BuildFromPath
    \/ CheckCell

\* the components of the queries written as struct literals: the literal
\* "a", the patterns ^a, a$, U+00E9 and ^A
QueryComponents ==
    {ComponentString(<<97>>),
     ComponentRegex(Regex_new(TRUE, <<97>>, FALSE)), ComponentRegex(Regex_new(FALSE, <<97>>, TRUE)),
     ComponentRegex(Regex_new(FALSE, <<233>>, FALSE)), ComponentRegex(Regex_new(TRUE, <<65>>, FALSE))}

\* Filter::from_path(RegQuery { key_path, key_path_has_root, children }):
\* the query's fields are pub(crate), its components literals or patterns
FromPathOfLiteral ==
    /\ builder = NoBuilder
    /\ ~is_valid(filter)
    /\ cell = NoCell
    /\ \E n \in 1..MaxComponents :
          \E key_path \in [1..n -> QueryComponents], has_root \in BOOLEAN :
              filter' = from_path([key_path          |-> key_path,
                                   key_path_has_root |-> has_root,
                                   children          |-> FALSE])
    /\ last_op' = "from_path"
    /\ UNCHANGED <<builder, query_src, cell, state, flags, sub_vars, header_vars, enum_vars, other_vars>>

QueryNext ==
    \/ FromPathOfLiteral
    \/ CheckCell

----------------------------------------------------------------------------
(* The filter's claims *)

\* check_cell ran on a filter that holds a query
Checked == last_op = "check_cell" /\ is_valid(filter)

\* match_cell answers for the root key of a query without key_path_has_root
\* before any matching (claim C24)
RootUnmatched == cell.is_key_root /\ ~filter.reg_query.key_path_has_root

\* check_cell matched the key path against the query
Matched == Checked /\ ~RootUnmatched

\* The key path that is matched: the key's path past the root name, the whole
\* path when the query names the root
KeyPath ==
    str_from(cell.path, IF filter.reg_query.key_path_has_root THEN 0 ELSE state.root_path_offset)

KeySegments == split(KeyPath, Backslash)

QuerySegments == [j \in 1..Len(filter.reg_query.key_path) |-> filter.reg_query.key_path[j].s]

\* folding the case of the ASCII letters alone
FoldAscii(s) == [i \in 1..Len(s) |-> IF s[i] \in 65..90 THEN s[i] + 32 ELSE s[i]]

\* folding the case of every letter of the alphabet (Latin-1 included)
FoldCase(s) ==
    [i \in 1..Len(s) |->
        IF s[i] \in 65..90 \/ (s[i] \in 192..222 /\ s[i] # 215) THEN s[i] + 32 ELSE s[i]]

\* the key-path segment at position j matches the query's, case ignored
SegmentMatches(j) == FoldAscii(KeySegments[j]) = QuerySegments[j]

\* the key path is longer than the query and agrees with all of it
QueryExhausted ==
    /\ Len(KeySegments) > Len(QuerySegments)
    /\ \A j \in 1..Len(QuerySegments) : SegmentMatches(j)

\* C1 as stated: a key path that goes on after the query is exhausted is
\* flagged FILTER_ITERATE_KEYS and not FILTER_KEY_MATCH.
C1_Stated ==
    (Checked /\ QueryExhausted) =>
        (contains(flags, FILTER_ITERATE_KEYS) /\ ~contains(flags, FILTER_KEY_MATCH))

\* C1 amended: when the query's segments are all matched and exhausted while
\* the key path still has further segments, check_key_match returns exactly
\* FILTER_NO_MATCH.
C1_ExhaustedIsNoMatch == (Matched /\ QueryExhausted) => flags = FILTER_NO_MATCH

C1_Witness == Matched /\ QueryExhausted /\ Len(QuerySegments) = 2 /\ flags = FILTER_NO_MATCH

\* the key path has as many segments as the query and each matches
ExactMatch ==
    /\ Len(KeySegments) = Len(QuerySegments)
    /\ \A j \in 1..Len(QuerySegments) : SegmentMatches(j)

\* C2: a key path with exactly the query's number of segments, each matching
\* the query segment at its position, gets FILTER_ITERATE_KEYS | FILTER_KEY_MATCH
\* from check_cell.
C2_ExactMatchBothFlags ==
    (Matched /\ ExactMatch) => flags = bit_or(FILTER_ITERATE_KEYS, FILTER_KEY_MATCH)

C2_Witness ==
    /\ Matched
    /\ ExactMatch
    /\ Len(QuerySegments) = 2
    /\ QuerySegments[2] # <<>>
    /\ flags = bit_or(FILTER_ITERATE_KEYS, FILTER_KEY_MATCH)

\* C3 as stated: a key whose path equals the path given to from_key up to
\* letter case gets FILTER_ITERATE_KEYS | FILTER_KEY_MATCH from check_cell.
C3_Stated ==
    (Matched /\ FoldCase(KeyPath) = FoldCase(query_src)) =>
        flags = bit_or(FILTER_ITERATE_KEYS, FILTER_KEY_MATCH)

\* C3 amended: a key whose path equals the path given to from_key, less its
\* trailing backslashes, up to the case of the ASCII letters gets
\* FILTER_ITERATE_KEYS | FILTER_KEY_MATCH from check_cell.
C3_AsciiCaseInsensitive ==
    (Matched /\ FoldAscii(KeyPath) = FoldAscii(trim_end_matches(query_src, Backslash))) =>
        flags = bit_or(FILTER_ITERATE_KEYS, FILTER_KEY_MATCH)

\* the query was written in upper case and the key in lower case, or the reverse
C3_Witness ==
    /\ Matched
    /\ FoldAscii(KeyPath) = FoldAscii(query_src)
    /\ \E i \in 1..Len(KeyPath) : KeyPath[i] # query_src[i]
    /\ \E i \in 1..Len(KeyPath) : KeyPath[i] = 65
    /\ flags = bit_or(FILTER_ITERATE_KEYS, FILTER_KEY_MATCH)

\* some key-path segment differs, case ignored, from the query segment at its position
SegmentDiffers ==
    \E j \in 1..Len(QuerySegments) : j <= Len(KeySegments) /\ ~SegmentMatches(j)

\* C4: when a key-path segment differs, case ignored, from the literal query
\* segment at the same position, check_cell returns exactly FILTER_NO_MATCH,
\* whatever the later segments are.
C4_MismatchIsNoMatch == (Matched /\ SegmentDiffers) => flags = FILTER_NO_MATCH

\* the first segment differs and a later one matches
C4_Witness ==
    /\ Matched
    /\ Len(QuerySegments) = 2
    /\ Len(KeySegments) = 2
    /\ ~SegmentMatches(1)
    /\ SegmentMatches(2)
    /\ flags = FILTER_NO_MATCH

\* the components of the query
Components == filter.reg_query.key_path

IsRegex(j) == Components[j].kind = "ComponentRegex"

\* the key-path segment at position j, lower-cased, is the literal at j or
\* is matched by the pattern at j
ComponentMatches(j) ==
    IF IsRegex(j)
    THEN is_match(Components[j].r, FoldAscii(KeySegments[j]))
    ELSE FoldAscii(KeySegments[j]) = Components[j].s

\* the key path ends before the query does and agrees with it as far as it goes
ProperPrefix ==
    /\ Len(KeySegments) < Len(Components)
    /\ \A j \in 1..Len(KeySegments) : ComponentMatches(j)

\* C19: for a key path that is a proper prefix of the query (each of its
\* segments matches the query segment at its position and the query has a
\* segment left) check_key_match returns exactly FILTER_ITERATE_KEYS.
C19_PrefixIterates == (Matched /\ ProperPrefix) => flags = FILTER_ITERATE_KEYS

\* the key "A" under the query "a", ^a
C19_Witness ==
    /\ Matched
    /\ ProperPrefix
    /\ KeySegments = <<(<<65>>)>>
    /\ Components = <<ComponentString(<<97>>), ComponentRegex(Regex_new(TRUE, <<97>>, FALSE))>>
    /\ flags = FILTER_ITERATE_KEYS

\* the positions the key path and the query share
Shared == 1..(IF Len(KeySegments) < Len(Components) THEN Len(KeySegments) ELSE Len(Components))

\* the first shared position whose segment does not match, 0 if there is none
FirstMismatch ==
    IF \A j \in Shared : ComponentMatches(j) THEN 0
    ELSE CHOOSE j \in Shared : ~ComponentMatches(j) /\ \A i \in 1..(j - 1) : ComponentMatches(i)

\* what a key path whose shared segments all match gets: the lengths decide
ByLength ==
    IF Len(KeySegments) > Len(Components) THEN FILTER_NO_MATCH
    ELSE IF Len(KeySegments) = Len(Components)
         THEN bit_or(FILTER_ITERATE_KEYS, FILTER_KEY_MATCH)
         ELSE FILTER_ITERATE_KEYS

\* C20: a key-path segment matches a regular-expression component exactly
\* when the regex matches the segment's lower-cased form: a segment the
\* regex does not match makes the result exactly FILTER_NO_MATCH, and one it
\* matches moves the filter on to the next query segment, so that the later
\* segments and the lengths decide.
C20_RegexOnLowerCased ==
    (Matched /\ \E j \in Shared : IsRegex(j) /\ \A i \in 1..(j - 1) : ComponentMatches(i)) =>
        flags = IF FirstMismatch # 0 THEN FILTER_NO_MATCH ELSE ByLength

\* ^a matched "A" and the filter moved on to the literal after it
C20_Witness ==
    /\ Matched
    /\ Components = <<ComponentRegex(Regex_new(TRUE, <<97>>, FALSE)), ComponentString(<<97>>)>>
    /\ KeySegments = <<(<<65>>), (<<97>>)>>
    /\ flags = bit_or(FILTER_ITERATE_KEYS, FILTER_KEY_MATCH)

\* ^a did not match the first segment, the literal after it matched the second
C20_WitnessNoMatch ==
    /\ Matched
    /\ Components = <<ComponentRegex(Regex_new(TRUE, <<97>>, FALSE)), ComponentString(<<97>>)>>
    /\ KeySegments = <<(<<233>>), (<<65>>)>>
    /\ flags = FILTER_NO_MATCH

\* the paths of the keys below the key checked, as far as the bound lets them be
DescendantPaths ==
    IF Len(cell.path) >= MaxPathLen THEN {}
    ELSE {cell.path \o <<Backslash>> \o ext : ext \in Strings(MaxPathLen - Len(cell.path) - 1)}

\* C21: pruning is sound: for a fixed query and root-name offset, when the
\* result for a key path is FILTER_NO_MATCH, the result for every path
\* below it (the path followed by one or more further segments) is
\* FILTER_NO_MATCH as well.
C21_PruningSound ==
    (last_op = "check_cell" /\ flags = FILTER_NO_MATCH) =>
        \A p \in DescendantPaths :
            check_cell(filter, state, [path |-> p, is_key_root |-> FALSE]) = FILTER_NO_MATCH

\* U+00E9 fails ^a, and below it lies a key whose last segment is the query's "a"
C21_Witness ==
    /\ last_op = "check_cell"
    /\ flags = FILTER_NO_MATCH
    /\ Components = <<ComponentRegex(Regex_new(TRUE, <<97>>, FALSE)), ComponentString(<<97>>)>>
    /\ cell.path = <<233>>
    /\ <<233, 92, 97>> \in DescendantPaths

\* the paths of the keys above the key checked: its path cut ahead of a backslash
AncestorPaths == {SubSeq(cell.path, 1, i - 1) : i \in {k \in 1..Len(cell.path) : cell.path[k] = Backslash}}

\* the keys above the key checked: each may be the root key, and a key that
\* is not holds the root name the offset skips
AncestorCells ==
    {c \in [path : AncestorPaths, is_key_root : BOOLEAN] :
        \/ c.is_key_root
        \/ filter.reg_query.key_path_has_root
        \/ state.root_path_offset <= Len(c.path)}

\* C22: matches are reachable: for a fixed query and root-name offset, when
\* the result for a key path contains FILTER_KEY_MATCH, the result for every
\* key above it (every proper, non-empty prefix of its segments, the root
\* key among them) contains FILTER_ITERATE_KEYS and is not FILTER_NO_MATCH.
C22_MatchesReachable ==
    (last_op = "check_cell" /\ contains(flags, FILTER_KEY_MATCH)) =>
        \A c \in AncestorCells :
            /\ contains(check_cell(filter, state, c), FILTER_ITERATE_KEYS)
            /\ check_cell(filter, state, c) # FILTER_NO_MATCH

\* "A\a" matches ^a, "a"; above it lies "A", as the root key or not
C22_Witness ==
    /\ last_op = "check_cell"
    /\ contains(flags, FILTER_KEY_MATCH)
    /\ Components = <<ComponentRegex(Regex_new(TRUE, <<97>>, FALSE)), ComponentString(<<97>>)>>
    /\ cell.path = <<65, 92, 97>>
    /\ state.root_path_offset = 0
    /\ [path |-> <<65>>, is_key_root |-> FALSE] \in AncestorCells
    /\ [path |-> <<65>>, is_key_root |-> TRUE] \in AncestorCells

\* C23: a filter with no query attached (Filter::new(), the default filter)
\* is not valid, and check_cell on it returns exactly FILTER_ITERATE_KEYS
\* for every key.
C23_NoQueryIterates ==
    (last_op = "check_cell" /\ filter = Filter_new) =>
        (~is_valid(filter) /\ flags = FILTER_ITERATE_KEYS)

\* a key that is not the root, of two segments, checked by the filter without a query
C23_Witness ==
    /\ last_op = "check_cell"
    /\ filter = Filter_new
    /\ ~cell.is_key_root
    /\ cell.path = <<97, 92, 65>>
    /\ flags = FILTER_ITERATE_KEYS

\* what a key gets whose segments are matched one by one against the query
MatchedByPosition == IF FirstMismatch # 0 THEN FILTER_NO_MATCH ELSE ByLength

\* C24: the root key of a query whose key_path_has_root is false gets exactly
\* FILTER_ITERATE_KEYS whatever the query and the root's name are; when
\* key_path_has_root is true the root key is matched like any other key,
\* from the first segment of its path on, whatever the root-name offset is.
C24_RootKey ==
    (Checked /\ cell.is_key_root) =>
        IF ~filter.reg_query.key_path_has_root
        THEN flags = FILTER_ITERATE_KEYS
        ELSE /\ KeySegments = split(cell.path, Backslash)
             /\ flags = MatchedByPosition
             /\ \A o \in 0..MaxRootOffset :
                    check_cell(filter, [root_path_offset |-> o], [cell EXCEPT !.is_key_root = FALSE])
                        = flags

\* the root key "A\a" of a query ^a, "a" that names the root, the offset being 1
C24_Witness ==
    /\ Checked
    /\ cell.is_key_root
    /\ filter.reg_query.key_path_has_root
    /\ Components = <<ComponentRegex(Regex_new(TRUE, <<97>>, FALSE)), ComponentString(<<97>>)>>
    /\ cell.path = <<65, 92, 97>>
    /\ state.root_path_offset = 1
    /\ flags = bit_or(FILTER_ITERATE_KEYS, FILTER_KEY_MATCH)

\* the root key U+00E9 of the same query when it does not name the root
C24_WitnessUnmatched ==
    /\ Checked
    /\ cell.is_key_root
    /\ ~filter.reg_query.key_path_has_root
    /\ Components = <<ComponentRegex(Regex_new(TRUE, <<97>>, FALSE)), ComponentString(<<97>>)>>
    /\ cell.path = <<233>>
    /\ flags = FILTER_ITERATE_KEYS

\* C25: return_sub_keys returns true exactly when the filter has a query
\* whose return_child_keys flag was set to true, false for a filter without
\* a query and for a query built without a call of return_child_keys; the
\* builder starts with both flags false, and building a query never changes
\* the segments from_key made.
C25_ReturnSubKeys ==
    /\ last_op = "return_sub_keys" => (sub_keys = <<is_valid(filter) /\ children_src = <<TRUE>>>>)
    /\ last_op = "from_key" => (~builder.children /\ ~builder.key_path_has_root)
    /\ builder # NoBuilder => builder.key_path = from_key(query_src).key_path
    /\ is_valid(filter) => filter.reg_query.key_path = from_key(query_src).key_path

\* return_child_keys(true) was called, the query built and the filter asked
C25_Witness ==
    /\ last_op = "return_sub_keys"
    /\ is_valid(filter)
    /\ children_src = <<TRUE>>
    /\ filter.reg_query.key_path_has_root
    /\ Len(filter.reg_query.key_path) = 2
    /\ sub_keys = <<TRUE>>

\* the query was built without a call of return_child_keys
C25_WitnessDefault ==
    /\ last_op = "return_sub_keys"
    /\ is_valid(filter)
    /\ children_src = <<>>
    /\ sub_keys = <<FALSE>>

\* the three results a traversal acts on
FlagResults ==
    {FILTER_NO_MATCH, FILTER_ITERATE_KEYS, bit_or(FILTER_ITERATE_KEYS, FILTER_KEY_MATCH)}

\* C29: every result of check_cell is one of exactly three values:
\* FILTER_NO_MATCH alone, FILTER_ITERATE_KEYS alone, or FILTER_ITERATE_KEYS
\* together with FILTER_KEY_MATCH. FILTER_NO_MATCH never comes with another
\* flag, FILTER_KEY_MATCH never comes without FILTER_ITERATE_KEYS, and the
\* result is never empty.
C29_ThreeResults ==
    last_op = "check_cell" =>
        /\ flags \in FlagResults
        /\ flags # NoFlags
        /\ contains(flags, FILTER_NO_MATCH) => flags = FILTER_NO_MATCH
        /\ contains(flags, FILTER_KEY_MATCH) => contains(flags, FILTER_ITERATE_KEYS)

\* a key that is not the root matched the whole of a two-segment query
C29_Witness ==
    /\ last_op = "check_cell"
    /\ is_valid(filter)
    /\ ~cell.is_key_root
    /\ Len(filter.reg_query.key_path) = 2
    /\ contains(flags, FILTER_KEY_MATCH)
    /\ contains(flags, FILTER_ITERATE_KEYS)
    /\ ~contains(flags, FILTER_NO_MATCH)

\* a key pruned by a query
C29_WitnessNoMatch ==
    /\ last_op = "check_cell"
    /\ is_valid(filter)
    /\ flags = FILTER_NO_MATCH

\* a key above a match
C29_WitnessIterate ==
    /\ last_op = "check_cell"
    /\ is_valid(filter)
    /\ ~cell.is_key_root
    /\ flags = FILTER_ITERATE_KEYS

----------------------------------------------------------------------------
(* Byte buffers and 32-bit words *)

\* A &[u8] of b.len bytes: byte i is b.at[i] where `at` is defined, b.fill elsewhere
byte_at(b, i) == IF i \in DOMAIN b.at THEN b.at[i] ELSE b.fill

\* A u32 is held as its four bytes, least significant first, so that no value
\* of the 32-bit range is lost: u32::from_le_bytes(bytes[pos..pos + 4])
u32_from_le_bytes(b, pos) ==
    <<byte_at(b, pos), byte_at(b, pos + 1), byte_at(b, pos + 2), byte_at(b, pos + 3)>>

\* the u32 of a number below 2^31
U32(n) == <<n % 256, (n \div 256) % 256, (n \div 65536) % 256, (n \div 16777216) % 256>>

RECURSIVE xor_bits(_, _)
xor_bits(a, b) ==
    IF a = 0 THEN b
    ELSE IF b = 0 THEN a
    ELSE (((a % 2) + (b % 2)) % 2) + 2 * xor_bits(a \div 2, b \div 2)

\* ^ on u32
xor32(x, y) ==
    <<xor_bits(x[1], y[1]), xor_bits(x[2], y[2]), xor_bits(x[3], y[3]), xor_bits(x[4], y[4])>>

----------------------------------------------------------------------------
(* reg_header.rs: RegHeaderBase::calculate_checksum *)

\* the last index the while loop of calculate_checksum admits (0x01FB)
ChecksumLastIndex == 507

\* mem::size_of::<u32>()
size_of_u32 == 4

Panic == [tag |-> "Panic"]

\* `turns` turns of the while loop of calculate_checksum from `index` on: a
\* slice that runs past the end of `bytes` panics
RECURSIVE checksum_turns(_, _, _, _)
checksum_turns(b, index, acc, turns) ==
    IF turns = 0
    THEN [tag |-> "Ok", value |-> acc]
    ELSE IF index + size_of_u32 > b.len
         THEN Panic
         ELSE checksum_turns(b, index + size_of_u32,
                             xor32(acc, u32_from_le_bytes(b, index)), turns - 1)

\* The while loop, `while index <= last`, taken LoopBlock turns at a time
RECURSIVE checksum_loop(_, _, _, _)
checksum_loop(b, index, acc, last) ==
    IF index <= last
    THEN LET LoopBlock == 16
             left  == (last - index) \div size_of_u32 + 1
             turns == IF left < LoopBlock THEN left ELSE LoopBlock
             r     == checksum_turns(b, index, acc, turns)
         IN  IF r.tag = "Ok"
             THEN checksum_loop(b, index + turns * size_of_u32, r.value, last)
             ELSE r
    ELSE [tag |-> "Ok", value |-> acc]

\* the match on xsum that ends calculate_checksum
checksum_remap(x) ==
    IF x = <<0, 0, 0, 0>> THEN <<1, 0, 0, 0>>
    ELSE IF x = <<255, 255, 255, 255>> THEN <<254, 255, 255, 255>>
    ELSE x

\* a bug: the loop runs on over the stored checksum word at offset 508
calculate_checksum_over_512(b) ==
    LET r == checksum_loop(b, 0, <<0, 0, 0, 0>>, ChecksumLastIndex + size_of_u32)
    IN  IF r.tag = "Ok" THEN [tag |-> "Ok", value |-> checksum_remap(r.value)] ELSE r

\* a bug: the degenerate sums are returned as they are
calculate_checksum_no_remap(b) ==
    checksum_loop(b, 0, <<0, 0, 0, 0>>, ChecksumLastIndex)

calculate_checksum(b) ==
    LET r == checksum_loop(b, 0, <<0, 0, 0, 0>>, ChecksumLastIndex)
    IN  IF r.tag = "Ok" THEN [tag |-> "Ok", value |-> checksum_remap(r.value)] ELSE r

----------------------------------------------------------------------------
(* macros.rs: impl_enum_from_value; the enums of reg_header.rs *)

\* Logs::add(code, text): the warning log is an ordered list of entries
Logs_add(lg, code, text) == Append(lg, [code |-> code, text |-> text])

\* the discriminants #[derive(Primitive)] gives from_u32, Unknown (0x0fffffff) among them
FileType ==
    [name |-> "FileType",
     from_u32 |-> (U32(0) :> "Primary") @@ (U32(1) :> "TransactionLog")
                  @@ (U32(6) :> "TransactionLogNewFormat") @@ (U32(268435455) :> "Unknown")]

FileFormat ==
    [name |-> "FileFormat",
     from_u32 |-> (U32(1) :> "DirectMemoryLoad") @@ (U32(268435455) :> "Unknown")]

FileBaseBlockReservedFlags ==
    [name |-> "FileBaseBlockReservedFlags",
     from_u32 |-> (U32(0) :> "None") @@ (U32(1) :> "KtmLockedHive")
                  @@ (U32(2) :> "Ktm2") @@ (U32(268435455) :> "Unknown")]

EnumTypes == {FileType, FileFormat, FileBaseBlockReservedFlags}

\* $enum_type::from_value(value, logs): the variant and the log it leaves
from_value(enum_type, value, lg) ==
    IF value \in DOMAIN enum_type.from_u32
    THEN [ret |-> enum_type.from_u32[value], logs |-> lg]
    ELSE [ret  |-> "Unknown",
          logs |-> Logs_add(lg, "WarningConversion", <<"Unrecognized", enum_type.name, "value">>)]

----------------------------------------------------------------------------
(* macros.rs: impl_flags_from_bits *)

\* & on the bits of two numbers
RECURSIVE bit_and(_, _)
bit_and(a, b) ==
    IF a = 0 \/ b = 0 THEN 0
    ELSE ((a % 2) * (b % 2)) + 2 * bit_and(a \div 2, b \div 2)

\* | on the bits of two numbers
RECURSIVE bit_or_any(_, _)
bit_or_any(a, b) ==
    IF a = 0 THEN b
    ELSE IF b = 0 THEN a
    ELSE (IF (a % 2) + (b % 2) > 0 THEN 1 ELSE 0) + 2 * bit_or_any(a \div 2, b \div 2)

\* the bitflags! type of test_from_bits_checked: a u16 with three flags
TestFlags == [name |-> "TestFlags", flags |-> <<1, 2, 3>>]

\* $bitflag_type::all().bits(): every defined flag together
RECURSIVE all_bits(_, _)
all_bits(defined, k) ==
    IF k > Len(defined) THEN 0 ELSE bit_or_any(defined[k], all_bits(defined, k + 1))

\* $bitflag_type::from_bits_truncate(flags)
from_bits_truncate(flag_type, bits) == bit_and(bits, all_bits(flag_type.flags, 1))

\* a bug: the bits are taken as they are
from_bits_checked_unchecked(flag_type, bits, lg) ==
    [ret  |-> bits,
     logs |-> IF bits # from_bits_truncate(flag_type, bits)
              THEN Logs_add(lg, "WarningUnrecognizedBitflag", <<flag_type.name, bits>>)
              ELSE lg]

\* $bitflag_type::from_bits_checked(flags, logs): the flags and the log it leaves
from_bits_checked(flag_type, bits, lg) ==
    LET flags_mapped == from_bits_truncate(flag_type, bits)
    IN  [ret  |-> flags_mapped,
         logs |-> IF bits # flags_mapped
                  THEN Logs_add(lg, "WarningUnrecognizedBitflag", <<flag_type.name, bits>>)
                  ELSE lg]

----------------------------------------------------------------------------
(* reg_header.rs, base_block.rs: the header parsers *)

\* "regf"
Magic == <<114, 101, 103, 102>>

\* The fields RegHeaderBase::from_bytes reads, in order, each with the nom
\* parser that reads it: tag and le_* are the `complete` parsers, take is
\* bytes::streaming::take.
RegHeaderBase_fields ==
    <<[name |-> "signature",                       width |-> 4,   parser |-> "tag"],
      [name |-> "primary_sequence_number",         width |-> 4,   parser |-> "le"],
      [name |-> "secondary_sequence_number",       width |-> 4,   parser |-> "le"],
      [name |-> "last_modification_date_and_time", width |-> 8,   parser |-> "le"],
      [name |-> "major_version",                   width |-> 4,   parser |-> "le"],
      [name |-> "minor_version",                   width |-> 4,   parser |-> "le"],
      [name |-> "file_type",                       width |-> 4,   parser |-> "le"],
      [name |-> "format",                          width |-> 4,   parser |-> "le"],
      [name |-> "root_cell_offset_relative",       width |-> 4,   parser |-> "le"],
      [name |-> "hive_bins_data_size",             width |-> 4,   parser |-> "le"],
      [name |-> "clustering_factor",               width |-> 4,   parser |-> "le"],
      [name |-> "filename",                        width |-> 64,  parser |-> "take"],
      [name |-> "unk2",                            width |-> 396, parser |-> "take"],
      [name |-> "checksum",                        width |-> 4,   parser |-> "le"]>>

\* a bug: the tail of the reserved area is taken four bytes short
FileBaseBlockReserved_fields_short_tail ==
    <<[name |-> "rm_id",                      width |-> 16,   parser |-> "take"],
      [name |-> "log_id",                     width |-> 16,   parser |-> "take"],
      [name |-> "flags",                      width |-> 4,    parser |-> "le"],
      [name |-> "tm_id",                      width |-> 16,   parser |-> "take"],
      [name |-> "signature",                  width |-> 4,    parser |-> "le"],
      [name |-> "last_reorganized_timestamp", width |-> 8,    parser |-> "le"],
      [name |-> "remaining",                  width |-> 3508, parser |-> "take"]>>

\* The fields FileBaseBlockReserved::from_bytes reads
FileBaseBlockReserved_fields ==
    <<[name |-> "rm_id",                      width |-> 16,   parser |-> "take"],
      [name |-> "log_id",                     width |-> 16,   parser |-> "take"],
      [name |-> "flags",                      width |-> 4,    parser |-> "le"],
      [name |-> "tm_id",                      width |-> 16,   parser |-> "take"],
      [name |-> "signature",                  width |-> 4,    parser |-> "le"],
      [name |-> "last_reorganized_timestamp", width |-> 8,    parser |-> "le"],
      [name |-> "remaining",                  width |-> 3512, parser |-> "take"]>>

\* The fields RegHeaderExtended::from_bytes reads after the reserved area
RegHeaderExtended_fields ==
    <<[name |-> "boot_type",    width |-> 4, parser |-> "le"],
      [name |-> "boot_recover", width |-> 4, parser |-> "le"]>>

\* The fields FileBaseBlock::from_bytes reads after the checksum
FileBaseBlock_tail_fields ==
    <<[name |-> "reserved",     width |-> 3576, parser |-> "take"],
      [name |-> "boot_type",    width |-> 4,    parser |-> "le"],
      [name |-> "boot_recover", width |-> 4,    parser |-> "le"]>>

\* nom::Err::Error(Error {input: <the input from `at` on>, code})
Err_Error(code, at) == [tag |-> "Err", err |-> "Error", code |-> code, at |-> at]

\* nom::Err::Incomplete(_), raised with the input at `at`
Err_Incomplete(at) == [tag |-> "Err", err |-> "Incomplete", code |-> "None", at |-> at]

\* a bug: an input too short to hold the tag is reported as cut short
tag_short_is_eof(b, pos, t) ==
    IF b.len - pos < Len(t)
    THEN Err_Error("Eof", pos)
    ELSE IF \A i \in 1..Len(t) : byte_at(b, pos + i - 1) = t[i]
         THEN [tag |-> "Ok", rest |-> pos + Len(t)]
         ELSE Err_Error("Tag", pos)

\* bytes::complete::tag(t): anything but a full match is ErrorKind::Tag
tag(b, pos, t) ==
    IF b.len - pos >= Len(t) /\ \A i \in 1..Len(t) : byte_at(b, pos + i - 1) = t[i]
    THEN [tag |-> "Ok", rest |-> pos + Len(t)]
    ELSE Err_Error("Tag", pos)

\* number::complete::le_u32, le_i32, le_u64: too few bytes is ErrorKind::Eof
le(b, pos, width) ==
    IF b.len - pos < width
    THEN Err_Error("Eof", pos)
    ELSE [tag |-> "Ok", rest |-> pos + width]

\* bytes::streaming::take(width): too few bytes is Err::Incomplete
take(b, pos, width) ==
    IF b.len - pos < width
    THEN Err_Incomplete(pos)
    ELSE [tag |-> "Ok", rest |-> pos + width]

read_field(b, pos, f) ==
    IF f.parser = "tag" THEN tag(b, pos, Magic)
    ELSE IF f.parser = "le" THEN le(b, pos, f.width)
    ELSE take(b, pos, f.width)

\* `let (input, x) = parser(input)?;` field after field: the first error returns
RECURSIVE parse_fields(_, _, _, _)
parse_fields(b, fields, k, pos) ==
    IF k > Len(fields)
    THEN [tag |-> "Ok", rest |-> pos]
    ELSE LET r == read_field(b, pos, fields[k])
         IN  IF r.tag = "Ok" THEN parse_fields(b, fields, k + 1, r.rest) ELSE r

\* where a field starts, `start` being where the first one does
RECURSIVE field_pos(_, _, _, _)
field_pos(fields, name, k, start) ==
    IF fields[k].name = name THEN start
    ELSE field_pos(fields, name, k + 1, start + fields[k].width)

\* the u32 read for a field
field_u32(b, fields, name, start) == u32_from_le_bytes(b, field_pos(fields, name, 1, start))

\* RegHeaderBase::from_bytes. The date, the file name and unk2 are not held:
\* util converts them and the claims do not read them.
RegHeaderBase_from_bytes(b) ==
    LET r   == parse_fields(b, RegHeaderBase_fields, 1, 0)
        u(n) == field_u32(b, RegHeaderBase_fields, n, 0)
        ft  == from_value(FileType, u("file_type"), <<>>)
        fmt == from_value(FileFormat, u("format"), ft.logs)
    IN  IF r.tag # "Ok" THEN r
        ELSE [tag   |-> "Ok",
              rest  |-> r.rest,
              value |-> [primary_sequence_number   |-> u("primary_sequence_number"),
                         secondary_sequence_number |-> u("secondary_sequence_number"),
                         major_version             |-> u("major_version"),
                         minor_version             |-> u("minor_version"),
                         file_type                 |-> ft.ret,
                         format                    |-> fmt.ret,
                         root_cell_offset_relative |-> u("root_cell_offset_relative"),
                         hive_bins_data_size       |-> u("hive_bins_data_size"),
                         clustering_factor         |-> u("clustering_factor"),
                         checksum                  |-> u("checksum"),
                         logs                      |-> fmt.logs]]

\* FileBaseBlockReserved::from_bytes on the input from `start` on (the GUIDs,
\* the timestamp and `remaining` are not held)
FileBaseBlockReserved_from_bytes(b, start) ==
    LET r  == parse_fields(b, FileBaseBlockReserved_fields, 1, start)
        u(n) == field_u32(b, FileBaseBlockReserved_fields, n, start)
        fl == from_value(FileBaseBlockReservedFlags, u("flags"), <<>>)
    IN  IF r.tag # "Ok" THEN r
        ELSE [tag   |-> "Ok",
              rest  |-> r.rest,
              value |-> [flags |-> fl.ret, signature |-> u("signature"), logs |-> fl.logs]]

\* RegHeaderExtended::from_bytes on the input from `start` on
RegHeaderExtended_from_bytes(b, start) ==
    LET res == FileBaseBlockReserved_from_bytes(b, start)
        r   == parse_fields(b, RegHeaderExtended_fields, 1, res.rest)
        u(n) == field_u32(b, RegHeaderExtended_fields, n, res.rest)
    IN  IF res.tag # "Ok" THEN res
        ELSE IF r.tag # "Ok" THEN r
        ELSE [tag   |-> "Ok",
              rest  |-> r.rest,
              value |-> [reserved     |-> res.value,
                         boot_type    |-> u("boot_type"),
                         boot_recover |-> u("boot_recover")]]

\* RegHeader::from_bytes
RegHeader_from_bytes(b) ==
    LET base == RegHeaderBase_from_bytes(b)
        ext  == RegHeaderExtended_from_bytes(b, base.rest)
    IN  IF base.tag # "Ok" THEN base
        ELSE IF ext.tag # "Ok" THEN ext
        ELSE [tag |-> "Ok", rest |-> ext.rest, value |-> [base |-> base.value, ext |-> ext.value]]

\* base_block.rs: its own FileType and FileFormat, decoded by a match on from_u32
base_block_FileType(v) ==
    IF v = U32(0) THEN "Normal"
    ELSE IF v = U32(1) THEN "TransactionLog"
    ELSE "Unknown"

base_block_FileFormat(v) == IF v = U32(1) THEN "DirectMemoryLoad" ELSE "Unknown"

\* FileBaseBlock::from_bytes. date_is_some: whether
\* util::get_date_time_from_filetime gives a date for the timestamp read; the
\* parser unwraps it.
FileBaseBlock_from_bytes(b, date_is_some) ==
    LET fields == RegHeaderBase_fields \o FileBaseBlock_tail_fields
        r    == parse_fields(b, fields, 1, 0)
        u(n) == field_u32(b, fields, n, 0)
    IN  IF r.tag # "Ok" THEN r
        ELSE IF ~date_is_some THEN Panic
        ELSE [tag   |-> "Ok",
              rest  |-> r.rest,
              value |-> [primary_sequence_number   |-> u("primary_sequence_number"),
                         secondary_sequence_number |-> u("secondary_sequence_number"),
                         major_version             |-> u("major_version"),
                         minor_version             |-> u("minor_version"),
                         file_type                 |-> base_block_FileType(u("file_type")),
                         format                    |-> base_block_FileFormat(u("format")),
                         root_cell_offset          |-> u("root_cell_offset_relative"),
                         hive_bins_data_size       |-> u("hive_bins_data_size"),
                         clustering_factor         |-> u("clustering_factor"),
                         checksum                  |-> u("checksum"),
                         boot_type                 |-> u("boot_type"),
                         boot_recover              |-> u("boot_recover")]]

----------------------------------------------------------------------------
(* The header's operations *)

\* the bytes every buffer is filled with past its leading bytes
FillBytes == {0, 255}

\* "regf", and "regf" with one byte wrong
Signatures == {Magic} \cup {[Magic EXCEPT ![k] = 70] : k \in 1..4}

\* the header inputs: every length up to MaxInputLen, led by a signature
HeaderInputs ==
    {[len |-> n, fill |-> f, at |-> [i \in 0..((IF n < 4 THEN n ELSE 4) - 1) |-> s[i + 1]]] :
        n \in 0..MaxInputLen, f \in FillBytes, s \in Signatures}

HeaderIdle ==
    /\ input = [len |-> 0, fill |-> 0, at |-> <<>>]
    /\ parsed = NoResult
    /\ xsum = NoResult

\* RegHeader::from_bytes(input)
ParseRegHeader ==
    /\ parsed = NoResult
    /\ parsed' = RegHeader_from_bytes(input)
    /\ last_op' = "RegHeader::from_bytes"
    /\ UNCHANGED <<input, xsum, filter_vars, enum_vars, other_vars>>

\* FileBaseBlock::from_bytes(input)
ParseFileBaseBlock ==
    /\ parsed = NoResult
    /\ \E date_is_some \in BOOLEAN : parsed' = FileBaseBlock_from_bytes(input, date_is_some)
    /\ last_op' = "FileBaseBlock::from_bytes"
    /\ UNCHANGED <<input, xsum, filter_vars, enum_vars, other_vars>>

HeaderNext ==
    \/ ParseRegHeader
    \/ ParseFileBaseBlock

----------------------------------------------------------------------------
(* The header's claims *)

Parsed == last_op \in {"RegHeader::from_bytes", "FileBaseBlock::from_bytes"}

\* the input's first four bytes are "regf"
StartsWithMagic ==
    input.len >= 4 /\ \A i \in 1..4 : byte_at(input, i - 1) = Magic[i]

\* C7: an input whose first four bytes are not "regf" fails with the signature
\* error (ErrorKind::Tag, raised at the first byte) and gives no header,
\* whatever follows and whatever its length.
C7_BadMagicIsSignatureError ==
    (Parsed /\ ~StartsWithMagic) => parsed = Err_Error("Tag", 0)

\* an input shorter than the signature
C7_Witness == Parsed /\ input.len \in 1..3 /\ parsed = Err_Error("Tag", 0)

\* the fields the parser that ran reads, in order
FieldsRead ==
    IF last_op = "RegHeader::from_bytes"
    THEN RegHeaderBase_fields \o FileBaseBlockReserved_fields \o RegHeaderExtended_fields
    ELSE RegHeaderBase_fields \o FileBaseBlock_tail_fields

\* where the first field starts that an input of `len` bytes does not hold in full
RECURSIVE FirstFieldCutShort(_, _, _, _)
FirstFieldCutShort(fields, k, pos, len) ==
    IF k > Len(fields) \/ pos + fields[k].width > len
    THEN pos
    ELSE FirstFieldCutShort(fields, k + 1, pos + fields[k].width, len)

\* C8 as stated: an input that starts with "regf" and is shorter than 4096
\* bytes fails with the end-of-input error (ErrorKind::Eof), raised at the
\* first field that cannot be read in full.
C8_Stated ==
    (Parsed /\ StartsWithMagic /\ input.len < 4096) =>
        parsed = Err_Error("Eof", FirstFieldCutShort(FieldsRead, 1, 0, input.len))

\* C9: a header parse that succeeds has consumed exactly 4096 bytes: what is
\* left is the input from byte 4096 on, nothing for an input of 4096 bytes.
C9_ConsumesBaseBlock ==
    (Parsed /\ parsed.tag = "Ok") => (parsed.rest = 4096 /\ input.len >= 4096)

\* an input with bytes left over
C9_Witness ==
    /\ last_op = "RegHeader::from_bytes"
    /\ parsed.tag = "Ok"
    /\ input.len > 4096
    /\ parsed.rest = 4096

\* the checksum the base block stores, and whether it is not the one
\* computed over the block's first 508 bytes
StoredChecksum == field_u32(input, RegHeaderBase_fields, "checksum", 0)

ChecksumMismatch ==
    /\ input.len >= 4096
    /\ StoredChecksum # calculate_checksum(input).value

\* the header's log holds an entry that is not one of the enum conversions'
MismatchWarned ==
    \E i \in 1..Len(parsed.value.base.logs) :
        parsed.value.base.logs[i].code # "WarningConversion"

\* C18 as stated: a base block whose stored checksum differs from the one
\* computed over its first 508 bytes is parsed successfully, and the
\* mismatch is recorded as a warning in the header's log.
C18_Stated ==
    (last_op = "RegHeader::from_bytes" /\ StartsWithMagic /\ ChecksumMismatch)
        => (parsed.tag = "Ok" /\ MismatchWarned)

----------------------------------------------------------------------------
(* The checksum's operations *)

\* the lengths of the buffers given to calculate_checksum: one too short for
\* the loop, the 508 bytes it reads, a base block's first 512 bytes, and more
ChecksumLens == {504, 508, 512, 513}

\* the offsets at which a buffer's bytes are set apart from its fill
PokeOffsets == {0, 3, 252, 505, 507, 508, 511, 512}

PokeValues == {1, 255}

ChecksumInputs == {[len |-> n, fill |-> f, at |-> <<>>] : n \in ChecksumLens, f \in FillBytes}

\* the caller writes one byte of the buffer
Poke ==
    /\ xsum = NoResult
    /\ Cardinality(DOMAIN input.at) < MaxPokes
    /\ \E o \in PokeOffsets, v \in PokeValues :
          /\ o < input.len
          /\ o \notin DOMAIN input.at
          /\ input' = [input EXCEPT !.at = (o :> v) @@ input.at]
    /\ last_op' = "poke"
    /\ UNCHANGED <<parsed, xsum, filter_vars, enum_vars, other_vars>>

\* RegHeaderBase::calculate_checksum(input)
CalculateChecksum ==
    /\ xsum = NoResult
    /\ xsum' = calculate_checksum(input)
    /\ last_op' = "calculate_checksum"
    /\ UNCHANGED <<input, parsed, filter_vars, enum_vars, other_vars>>

ChecksumNext ==
    \/ Poke
    \/ CalculateChecksum

----------------------------------------------------------------------------
(* The checksum's claims *)

\* bit t of byte k of the XOR of the 127 words at offsets 0, 4, ..., 504: the
\* parity of the number of words that have the bit set
WordsXorBit(k, t) ==
    Cardinality({w \in 0..126 :
                    (byte_at(input, 4 * w + k) \div (2 ^ t)) % 2 = 1}) % 2

WordsXorByte(k) ==
    WordsXorBit(k, 0) + 2 * WordsXorBit(k, 1) + 4 * WordsXorBit(k, 2) + 8 * WordsXorBit(k, 3)
    + 16 * WordsXorBit(k, 4) + 32 * WordsXorBit(k, 5) + 64 * WordsXorBit(k, 6)
    + 128 * WordsXorBit(k, 7)

WordsXor == <<WordsXorByte(0), WordsXorByte(1), WordsXorByte(2), WordsXorByte(3)>>

Degenerate == {<<0, 0, 0, 0>>, <<255, 255, 255, 255>>}

\* calculate_checksum ran on a buffer that holds the 127 words
Summed == last_op = "calculate_checksum" /\ input.len >= 508

\* C5: calculate_checksum returns the XOR of the 127 little-endian words at
\* offsets 0, 4, ..., 504 when that XOR is neither 0 nor 0xFFFFFFFF; no byte
\* from offset 508 on has a part in it.
C5_XorOf127Words ==
    (Summed /\ WordsXor \notin Degenerate) => xsum = [tag |-> "Ok", value |-> WordsXor]

\* a byte of the words and a byte of the stored checksum were both written
C5_Witness ==
    /\ Summed
    /\ WordsXor \notin Degenerate
    /\ \E o \in DOMAIN input.at : o < 508
    /\ \E o \in DOMAIN input.at : o >= 508 /\ input.at[o] # input.fill
    /\ xsum = [tag |-> "Ok", value |-> WordsXor]

\* C6: calculate_checksum returns 1 when the XOR of the 127 words is 0 and
\* 0xFFFFFFFE when it is 0xFFFFFFFF; it never returns 0 or 0xFFFFFFFF.
C6_DegenerateRemapped ==
    (last_op = "calculate_checksum" /\ xsum.tag = "Ok") =>
        /\ xsum.value \notin Degenerate
        /\ WordsXor = <<0, 0, 0, 0>> => xsum.value = <<1, 0, 0, 0>>
        /\ WordsXor = <<255, 255, 255, 255>> => xsum.value = <<254, 255, 255, 255>>

\* two written bytes cancel each other
C6_Witness ==
    /\ Summed
    /\ Cardinality({o \in DOMAIN input.at : o < 508}) = 2
    /\ WordsXor = <<0, 0, 0, 0>>
    /\ xsum = [tag |-> "Ok", value |-> <<1, 0, 0, 0>>]

----------------------------------------------------------------------------
(* The enum decoder's operations *)

NoEnumArg == [none |-> TRUE]

\* the u32 values decoded: the discriminants, their neighbours, the ends of the range
EnumValues ==
    {U32(0), U32(1), U32(2), U32(3), U32(5), U32(6), U32(7),
     U32(268435454), U32(268435455), U32(268435456),
     <<0, 0, 0, 128>>, <<255, 255, 255, 255>>}

EnumIdle ==
    /\ enum_arg = NoEnumArg
    /\ enum_ret = "None"
    /\ logs = <<>>

\* $enum_type::from_value(value, &mut logs)
FromValue ==
    /\ Len(logs) < MaxLogs
    /\ \E t \in EnumTypes, v \in EnumValues :
          LET r == from_value(t, v, logs)
          IN  /\ enum_arg' = [type |-> t.name, value |-> v]
              /\ enum_ret' = r.ret
              /\ logs' = r.logs
    /\ last_op' = "from_value"
    /\ UNCHANGED <<filter_vars, header_vars, other_vars>>

\* the u16 values given to from_bits_checked
FlagValues == {0, 1, 2, 3, 4, 5, 6, 7, 8, 32768, 32769, 65535}

\* $bitflag_type::from_bits_checked(flags, &mut logs)
FromBitsChecked ==
    /\ Len(logs) < MaxLogs
    /\ \E v \in FlagValues :
          LET r == from_bits_checked(TestFlags, v, logs)
          IN  /\ enum_arg' = [type |-> TestFlags.name, value |-> v]
              /\ enum_ret' = r.ret
              /\ logs' = r.logs
    /\ last_op' = "from_bits_checked"
    /\ UNCHANGED <<filter_vars, header_vars, other_vars>>

EnumNext ==
    \/ FromValue
    \/ FromBitsChecked

----------------------------------------------------------------------------
(* The enum decoder's claims *)

\* the on-disk values each enum defines, with their variants
DefinedValues ==
    [FileType                   |-> (U32(0) :> "Primary") @@ (U32(1) :> "TransactionLog")
                                    @@ (U32(6) :> "TransactionLogNewFormat"),
     FileFormat                 |-> (U32(1) :> "DirectMemoryLoad"),
     FileBaseBlockReservedFlags |-> (U32(0) :> "None") @@ (U32(1) :> "KtmLockedHive")
                                    @@ (U32(2) :> "Ktm2")]

\* C10 as stated: from_value gives Unknown and appends exactly one conversion
\* warning for every value that is not a defined on-disk value, and gives the
\* variant and leaves the log as it is for every defined value.
C10_Stated ==
    [][last_op' = "from_value" =>
        LET defined == DefinedValues[enum_arg'.type]
        IN  IF enum_arg'.value \in DOMAIN defined
            THEN enum_ret' = defined[enum_arg'.value] /\ logs' = logs
            ELSE /\ enum_ret' = "Unknown"
                 /\ Len(logs') = Len(logs) + 1
                 /\ SubSeq(logs', 1, Len(logs)) = logs
                 /\ logs'[Len(logs')].code = "WarningConversion"]_vars

\* the bits that belong to a defined flag of TestFlags
DefinedBit(k) == \E i \in 1..Len(TestFlags.flags) : (TestFlags.flags[i] \div (2 ^ k)) % 2 = 1

HasBit(n, k) == (n \div (2 ^ k)) % 2 = 1

\* C14: from_bits_checked returns exactly the bits of the input that belong
\* to a defined flag, appends exactly one WarningUnrecognizedBitflag entry
\* when the input has a bit that is not defined, and leaves the log as it is
\* when every bit of the input is defined.
C14_FromBitsChecked ==
    [][last_op' = "from_bits_checked" =>
        /\ \A k \in 0..15 : HasBit(enum_ret', k) <=> (HasBit(enum_arg'.value, k) /\ DefinedBit(k))
        /\ enum_ret' \in 0..65535
        /\ IF \E k \in 0..15 : HasBit(enum_arg'.value, k) /\ ~DefinedBit(k)
           THEN /\ Len(logs') = Len(logs) + 1
                /\ SubSeq(logs', 1, Len(logs)) = logs
                /\ logs'[Len(logs')].code = "WarningUnrecognizedBitflag"
           ELSE logs' = logs]_vars

\* a defined and an unknown bit together: the first is kept, the second warned of
C14_Witness ==
    /\ last_op = "from_bits_checked"
    /\ enum_arg.value = 32769
    /\ enum_ret = 1
    /\ Len(logs) = 2
    /\ logs[2].code = "WarningUnrecognizedBitflag"

----------------------------------------------------------------------------
(* 32-bit arithmetic on the four bytes of a word *)

\* x + y on u32: the sum modulo 2^32 and whether it overflowed
add32(x, y) ==
    LET s1 == x[1] + y[1]
        s2 == x[2] + y[2] + (s1 \div 256)
        s3 == x[3] + y[3] + (s2 \div 256)
        s4 == x[4] + y[4] + (s3 \div 256)
    IN  [value |-> <<s1 % 256, s2 % 256, s3 % 256, s4 % 256>>, overflow |-> s4 >= 256]

\* the wrapping negation of an i32 (two's complement)
wrapping_neg(x) ==
    add32(<<255 - x[1], 255 - x[2], 255 - x[3], 255 - x[4]>>, <<1, 0, 0, 0>>).value

\* i32::MIN, -2^31
i32_MIN == <<0, 0, 0, 128>>

is_negative(x) == x[4] >= 128

\* a panic on an arithmetic overflow, raised by `op`
PanicOverflow(op) == [tag |-> "Panic", overflow |-> op]

\* `size.abs() as u32`: abs of i32::MIN overflows, which panics in a build
\* that checks overflow and gives i32::MIN back in one that does not
abs_as_u32(size, checks) ==
    IF size = i32_MIN
    THEN IF checks THEN PanicOverflow("abs") ELSE [tag |-> "Ok", value |-> i32_MIN]
    ELSE [tag |-> "Ok", value |-> IF is_negative(size) THEN wrapping_neg(size) ELSE size]

\* whether a u32 is below 2^31, and then its number (`as usize`)
fits_int(x) == x[4] < 128

as_usize(x) == x[1] + 256 * x[2] + 65536 * x[3] + 16777216 * x[4]

----------------------------------------------------------------------------
(* cell_key_security.rs, sub_key_list_lf.rs: the cell decoders *)

\* "sk" and "lf"
Signature_sk == <<115, 107>>

Signature_lf == <<108, 102>>

\* take!(input, count) with a u32 count: nom's macro is the streaming take
take_u32(b, pos, count) ==
    IF fits_int(count) THEN take(b, pos, as_usize(count)) ELSE Err_Incomplete(pos)

\* util::parser_eat_remaining(input, cell_size, bytes_consumed): takes the
\* cell_size - bytes_consumed bytes that are left of the cell. The
\* subtraction is on usize: a cell_size below bytes_consumed panics where
\* overflow is checked and wraps to a count no input holds where it is not.
parser_eat_remaining(b, pos, cell_size, bytes_consumed, checks) ==
    IF ~fits_int(cell_size)
    THEN Err_Incomplete(pos)
    ELSE IF as_usize(cell_size) < bytes_consumed
         THEN IF checks THEN PanicOverflow("sub") ELSE Err_Incomplete(pos)
         ELSE take(b, pos, as_usize(cell_size) - bytes_consumed)

\* The fields CellKeySecurity::from_bytes reads ahead of the descriptor
CellKeySecurity_fields ==
    <<[name |-> "size",                     width |-> 4, parser |-> "le"],
      [name |-> "signature",                width |-> 2, parser |-> "tag"],
      [name |-> "unknown1",                 width |-> 2, parser |-> "le"],
      [name |-> "flink",                    width |-> 4, parser |-> "le"],
      [name |-> "blink",                    width |-> 4, parser |-> "le"],
      [name |-> "reference_count",          width |-> 4, parser |-> "le"],
      [name |-> "security_descriptor_size", width |-> 4, parser |-> "le"]>>

\* parse_fields for a cell: the tag is the cell's signature
RECURSIVE parse_cell_fields(_, _, _, _, _)
parse_cell_fields(b, fields, signature, k, pos) ==
    IF k > Len(fields)
    THEN [tag |-> "Ok", rest |-> pos]
    ELSE LET f == fields[k]
             r == IF f.parser = "tag" THEN tag(b, pos, signature) ELSE le(b, pos, f.width)
         IN  IF r.tag = "Ok" THEN parse_cell_fields(b, fields, signature, k + 1, r.rest) ELSE r

\* a bug: the padding of the cell is left in the input
CellKeySecurity_from_bytes_no_eat(b, checks) ==
    LET head == parse_cell_fields(b, CellKeySecurity_fields, Signature_sk, 1, 0)
        u(n) == field_u32(b, CellKeySecurity_fields, n, 0)
        sd   == take_u32(b, head.rest, u("security_descriptor_size"))
        size_abs == abs_as_u32(u("size"), checks)
    IN  IF head.tag # "Ok" THEN head
        ELSE IF sd.tag # "Ok" THEN sd
        ELSE IF size_abs.tag # "Ok" THEN size_abs
        ELSE [tag   |-> "Ok",
              rest  |-> sd.rest,
              value |-> [flink |-> u("flink"), blink |-> u("blink"),
                         reference_count |-> u("reference_count"),
                         security_descriptor_size |-> u("security_descriptor_size"),
                         size |-> size_abs.value]]

\* CellKeySecurity::from_bytes on a slice that starts at the cell's size
\* field (unknown1 and the descriptor's bytes are not held)
CellKeySecurity_from_bytes(b, checks) ==
    LET head == parse_cell_fields(b, CellKeySecurity_fields, Signature_sk, 1, 0)
        u(n) == field_u32(b, CellKeySecurity_fields, n, 0)
        sd   == take_u32(b, head.rest, u("security_descriptor_size"))
        size_abs == abs_as_u32(u("size"), checks)
        eat  == parser_eat_remaining(b, sd.rest, size_abs.value, sd.rest, checks)
    IN  IF head.tag # "Ok" THEN head
        ELSE IF sd.tag # "Ok" THEN sd
        ELSE IF size_abs.tag # "Ok" THEN size_abs
        ELSE IF eat.tag # "Ok" THEN eat
        ELSE [tag   |-> "Ok",
              rest  |-> eat.rest,
              value |-> [flink |-> u("flink"), blink |-> u("blink"),
                         reference_count |-> u("reference_count"),
                         security_descriptor_size |-> u("security_descriptor_size"),
                         size |-> size_abs.value]]

\* The fields SubKeyListLf::from_bytes_internal reads ahead of the items
SubKeyListLf_fields ==
    <<[name |-> "size",      width |-> 4, parser |-> "le"],
      [name |-> "signature", width |-> 2, parser |-> "tag"],
      [name |-> "count",     width |-> 2, parser |-> "le"]>>

\* The fields SubKeyListLfItem::from_bytes reads (name_hint is not held)
SubKeyListLfItem_fields ==
    <<[name |-> "named_key_offset_relative", width |-> 4, parser |-> "le"],
      [name |-> "name_hint",                 width |-> 4, parser |-> "take"]>>

\* le_u16(input)
u16_from_le_bytes(b, pos) == byte_at(b, pos) + 256 * byte_at(b, pos + 1)

\* nom::multi::count(SubKeyListLfItem::from_bytes(), n): n items one after
\* the other, the first error returned as it is
RECURSIVE count_items(_, _, _, _)
count_items(b, pos, n, items) ==
    IF n = 0
    THEN [tag |-> "Ok", rest |-> pos, value |-> items]
    ELSE LET r == parse_fields(b, SubKeyListLfItem_fields, 1, pos)
         IN  IF r.tag # "Ok" THEN r
             ELSE count_items(b, r.rest, n - 1,
                              Append(items, [named_key_offset_relative |-> u32_from_le_bytes(b, pos)]))

\* SubKeyListLf::from_bytes_internal on a slice that starts at the cell's size field
SubKeyListLf_from_bytes_internal(b, checks) ==
    LET head  == parse_cell_fields(b, SubKeyListLf_fields, Signature_lf, 1, 0)
        count == u16_from_le_bytes(b, field_pos(SubKeyListLf_fields, "count", 1, 0))
        items == count_items(b, head.rest, count, <<>>)
        size_abs == abs_as_u32(field_u32(b, SubKeyListLf_fields, "size", 0), checks)
    IN  IF head.tag # "Ok" THEN head
        ELSE IF items.tag # "Ok" THEN items
        ELSE IF size_abs.tag # "Ok" THEN size_abs
        ELSE [tag   |-> "Ok",
              rest  |-> items.rest,
              value |-> [size |-> size_abs.value, count |-> count, items |-> items.value]]

\* named_key_offset_relative + hbin_offset_absolute on u32: an overflow
\* panics in a build that checks it and wraps in one that does not
RECURSIVE map_add(_, _, _, _)
map_add(items, hbin_offset_absolute, checks, out) ==
    IF Len(out) = Len(items)
    THEN [tag |-> "Ok", value |-> out]
    ELSE LET sum == add32(items[Len(out) + 1].named_key_offset_relative, hbin_offset_absolute)
         IN  IF sum.overflow /\ checks
             THEN PanicOverflow("add")
             ELSE map_add(items, hbin_offset_absolute, checks, Append(out, sum.value))

\* SubKeyListLf::get_offset_list
get_offset_list(lf, hbin_offset_absolute, checks) ==
    map_add(lf.items, hbin_offset_absolute, checks, <<>>)

----------------------------------------------------------------------------
(* The cell decoders' operations *)

\* the bytes of `seq` laid from offset `pos` on
bytes_from(pos, seq) == [i \in pos..(pos + Len(seq) - 1) |-> seq[i - pos + 1]]

\* a buffer of `len` bytes: those of `at` that lie in it, `fill` elsewhere
buffer(len, fill, at) ==
    [len |-> len, fill |-> fill, at |-> [i \in DOMAIN at \cap 0..(len - 1) |-> at[i]]]

\* the size fields: allocated (negative) and free (positive) cells, 0 and i32::MIN
CellSizes ==
    {wrapping_neg(U32(8)), wrapping_neg(U32(24)), U32(24), wrapping_neg(U32(32)), U32(32),
     wrapping_neg(U32(40)), U32(40), U32(0), i32_MIN}

\* the lengths of the slices given to the decoders
CellLens == {0, 5, 8, 12, 16, 24, 28, 32, 36, 40, 48}

\* the descriptor sizes of the sk cells
DescriptorSizes == {U32(0), U32(4), U32(8), U32(16), <<255, 255, 255, 255>>}

\* the relative offsets of the lf items
ItemOffsets == {U32(32), U32(4128), <<0, 240, 255, 255>>, <<255, 255, 255, 255>>}

\* the hive-bin offsets given to get_offset_list
BaseOffsets == {U32(0), U32(4096), <<255, 255, 255, 255>>}

SkInputs ==
    {buffer(n, f, bytes_from(0, size) @@ bytes_from(4, sig) @@ bytes_from(20, sd)) :
        n \in CellLens, f \in FillBytes, size \in CellSizes,
        sig \in {Signature_sk, Signature_lf}, sd \in DescriptorSizes}

\* the bytes of `items`, eight to an item, from offset 8 on
RECURSIVE item_bytes(_, _)
item_bytes(items, k) ==
    IF k > Len(items) THEN <<>>
    ELSE bytes_from(8 * k, items[k]) @@ item_bytes(items, k + 1)

LfInputs ==
    UNION {{buffer(n, f, bytes_from(0, size) @@ bytes_from(4, Signature_lf)
                         @@ bytes_from(6, <<count, 0>>) @@ item_bytes(items, 1)) :
               n \in CellLens, f \in FillBytes, size \in CellSizes,
               items \in [1..count -> ItemOffsets]} : count \in 0..MaxItems}

\* CellKeySecurity::from_bytes(input)
DecodeSk ==
    /\ parsed = NoResult
    /\ parsed' = CellKeySecurity_from_bytes(input, overflow_checks)
    /\ last_op' = "CellKeySecurity::from_bytes"
    /\ UNCHANGED <<input, xsum, decoder_vars, filter_vars, enum_vars, walk_vars, py_vars>>

\* SubKeyListLf::from_bytes_internal(input)
DecodeLf ==
    /\ parsed = NoResult
    /\ parsed' = SubKeyListLf_from_bytes_internal(input, overflow_checks)
    /\ last_op' = "SubKeyListLf::from_bytes_internal"
    /\ UNCHANGED <<input, xsum, decoder_vars, filter_vars, enum_vars, walk_vars, py_vars>>

\* lf.get_offset_list(hbin_offset_absolute) on the list decoded
GetOffsetList ==
    /\ last_op = "SubKeyListLf::from_bytes_internal"
    /\ parsed.tag = "Ok"
    /\ \E base \in BaseOffsets :
          offsets' = [hbin_offset_absolute |-> base,
                      ret |-> get_offset_list(parsed.value, base, overflow_checks)]
    /\ last_op' = "get_offset_list"
    /\ UNCHANGED <<header_vars, overflow_checks, filter_vars, enum_vars, walk_vars, py_vars>>

DecoderNext ==
    \/ DecodeSk
    \/ DecodeLf
    \/ GetOffsetList

----------------------------------------------------------------------------
(* The cell decoders' claims *)

DecodedSk == last_op = "CellKeySecurity::from_bytes"

DecodedLf == last_op = "SubKeyListLf::from_bytes_internal"

\* the cell's size field, an i32
SizeField == u32_from_le_bytes(input, 0)

\* |s| of a size field s other than -2^31, as a number
Magnitude(x) ==
    IF x[4] >= 128
    THEN (255 - x[1]) + 256 * (255 - x[2]) + 65536 * (255 - x[3]) + 16777216 * (255 - x[4]) + 1
    ELSE x[1] + 256 * x[2] + 65536 * x[3] + 16777216 * x[4]

\* |s| of a size field s as an unsigned 32-bit number (2^31 for -2^31)
MagnitudeU32(x) == IF x = <<0, 0, 0, 128>> THEN x ELSE U32(Magnitude(x))

\* C11: an sk decode that succeeds has consumed exactly |size| bytes: the
\* padding after the security descriptor is eaten and what is left starts at
\* the first byte after the cell.
C11_SkConsumesCell ==
    (DecodedSk /\ parsed.tag = "Ok") =>
        /\ SizeField # <<0, 0, 0, 128>>
        /\ parsed.rest = Magnitude(SizeField)
        /\ parsed.rest <= input.len

\* a cell with padding after its descriptor, and bytes after the cell
C11_Witness ==
    /\ DecodedSk
    /\ parsed.tag = "Ok"
    /\ parsed.rest > 24 + as_usize(parsed.value.security_descriptor_size)
    /\ parsed.rest = Magnitude(SizeField)
    /\ parsed.rest < input.len

\* C12 as stated: an lf decode that succeeds has consumed exactly |size|
\* bytes, the padding after the last item included.
C12_Stated ==
    (DecodedLf /\ parsed.tag = "Ok") =>
        (SizeField # <<0, 0, 0, 128>> /\ parsed.rest = Magnitude(SizeField))

\* x + y as a number of five bytes, which holds every sum of two u32
ExactSum(x, y) ==
    LET s1 == x[1] + y[1]
        s2 == x[2] + y[2] + (s1 \div 256)
        s3 == x[3] + y[3] + (s2 \div 256)
        s4 == x[4] + y[4] + (s3 \div 256)
    IN  <<s1 % 256, s2 % 256, s3 % 256, s4 % 256, s4 \div 256>>

\* C13 as stated: get_offset_list(base) returns one offset for each item, in
\* the items' order, each the item's relative offset plus base, exactly.
C13_Stated ==
    last_op = "get_offset_list" =>
        /\ offsets.ret.tag = "Ok"
        /\ Len(offsets.ret.value) = Len(parsed.value.items)
        /\ \A i \in 1..Len(parsed.value.items) :
              offsets.ret.value[i] \o <<0>> =
                  ExactSum(parsed.value.items[i].named_key_offset_relative,
                           offsets.hbin_offset_absolute)

\* C15 as stated: for every size field s the decoders report |s| as an
\* unsigned 32-bit number, with no overflow for any s, -2^31 included.
C15_Stated ==
    (DecodedSk \/ DecodedLf) =>
        /\ parsed # PanicOverflow("abs")
        /\ parsed.tag = "Ok" => parsed.value.size = MagnitudeU32(SizeField)

----------------------------------------------------------------------------
(* cell_key_security.rs: read_cell_key_security *)

\* &file_buffer[pos..]: the bytes from pos on; a pos beyond the end panics
slice_from(b, pos) ==
    IF pos > b.len
    THEN [tag |-> "Panic", slice |-> "out of range"]
    ELSE [tag |-> "Ok",
          value |-> [len  |-> b.len - pos,
                     fill |-> b.fill,
                     at   |-> [i \in {j - pos : j \in {k \in DOMAIN b.at : k >= pos}} |-> b.at[i + pos]]]]

\* Finish::finish: Err::Incomplete panics, Err::Error is the error
finish(r) ==
    IF r.tag = "Err" /\ r.err = "Incomplete"
    THEN [tag |-> "Panic", finish |-> "Incomplete"]
    ELSE r

\* SecurityDescriptor::from_stream on the descriptor of the cell at `at`:
\* it decodes a blob that is there and starts with revision 1
SecurityDescriptor_from_stream(b, at, len) ==
    IF len > 0 /\ byte_at(b, at) = 1
    THEN [tag |-> "Ok", value |-> [blob_at |-> at, blob_len |-> len]]
    ELSE [tag |-> "Err"]

\* the descriptors the walk holds in the model: the first of those pushed
MaxDescriptors == MaxCells + 1

\* Vec::push
push(vec, x) == IF Len(vec) < MaxDescriptors THEN Append(vec, x) ELSE vec

\* Error::Nom
Error_Nom(e) == [tag |-> "Err", error |-> "Nom", detail |-> e]

\* the function's first two statements; `turns` counts the turns of the
\* loop modulo 2, `visited` holds the offsets the loop read a cell at
read_cell_key_security_enter(security_key_offset, hbin_offset) ==
    [status |-> "running",
     security_key_offset |-> security_key_offset,
     hbin_offset |-> hbin_offset,
     offset |-> as_usize(security_key_offset),
     security_descriptors |-> <<>>,
     turns |-> 0,
     visited |-> <<>>,
     ret |-> NoResult]

\* a bug: the walk stops at the last cell without looking at its descriptor
read_cell_key_security_loop_stops_early(file_buffer, w, checks) ==
    LET at    == w.offset + as_usize(w.hbin_offset)
        input_ == slice_from(file_buffer, at)
        r     == finish(CellKeySecurity_from_bytes(input_.value, checks))
        res_security_descriptor ==
            SecurityDescriptor_from_stream(file_buffer, at + 24,
                                           as_usize(r.value.security_descriptor_size))
        security_descriptors ==
            IF res_security_descriptor.tag = "Ok"
            THEN push(w.security_descriptors, res_security_descriptor.value)
            ELSE w.security_descriptors
    IN  IF input_.tag = "Panic" THEN [w EXCEPT !.status = "panicked", !.ret = input_]
        ELSE IF r.tag = "Panic" THEN [w EXCEPT !.status = "panicked", !.ret = r]
        ELSE IF r.tag = "Err" THEN [w EXCEPT !.status = "returned", !.ret = Error_Nom(r)]
        ELSE IF r.value.flink = w.security_key_offset
             THEN [w EXCEPT !.status = "returned",
                            !.ret = [tag |-> "Ok", value |-> w.security_descriptors]]
             ELSE [w EXCEPT !.offset = as_usize(r.value.flink),
                            !.security_descriptors = security_descriptors]

\* one turn of the loop of read_cell_key_security
read_cell_key_security_loop(file_buffer, w, checks) ==
    LET at    == w.offset + as_usize(w.hbin_offset)
        input_ == slice_from(file_buffer, at)
        r     == finish(CellKeySecurity_from_bytes(input_.value, checks))
        res_security_descriptor ==
            SecurityDescriptor_from_stream(file_buffer, at + 24,
                                           as_usize(r.value.security_descriptor_size))
        security_descriptors ==
            IF res_security_descriptor.tag = "Ok"
            THEN push(w.security_descriptors, res_security_descriptor.value)
            ELSE w.security_descriptors
    IN  IF input_.tag = "Panic" THEN [w EXCEPT !.status = "panicked", !.ret = input_]
        ELSE IF r.tag = "Panic" THEN [w EXCEPT !.status = "panicked", !.ret = r]
        ELSE IF r.tag = "Err" THEN [w EXCEPT !.status = "returned", !.ret = Error_Nom(r)]
        ELSE IF r.value.flink = w.security_key_offset
             THEN [w EXCEPT !.status = "returned",
                            !.security_descriptors = security_descriptors,
                            !.ret = [tag |-> "Ok", value |-> security_descriptors]]
             ELSE [w EXCEPT !.offset = as_usize(r.value.flink),
                            !.security_descriptors = security_descriptors]

----------------------------------------------------------------------------
(* The sk walk's operations *)

\* the offsets of the cells of the buffer, and the one of its end
CellOffsets == {32 * k : k \in 0..(MaxCells - 1)}

EndOffset == 32 * MaxCells

\* the cells: a descriptor that decodes, none, another cell's signature, a
\* descriptor size beyond every input
CellKinds ==
    {[signature |-> Signature_sk, security_descriptor_size |-> U32(8)],
     [signature |-> Signature_sk, security_descriptor_size |-> U32(0)],
     [signature |-> Signature_lf, security_descriptor_size |-> U32(8)],
     [signature |-> Signature_sk, security_descriptor_size |-> <<255, 255, 255, 255>>]}

\* the bytes of a cell of 32 bytes at `at`
cell_bytes(at, c) ==
    bytes_from(at, wrapping_neg(U32(32))) @@ bytes_from(at + 4, c.signature)
    @@ bytes_from(at + 8, U32(c.flink))
    @@ bytes_from(at + 20, c.security_descriptor_size) @@ bytes_from(at + 24, <<1>>)

RECURSIVE cells_bytes(_, _)
cells_bytes(cells, k) ==
    IF k >= MaxCells THEN <<>>
    ELSE cell_bytes(32 * k, cells[k]) @@ cells_bytes(cells, k + 1)

\* the buffers: MaxCells cells, each linked to a cell or to the end
Hives ==
    {buffer(EndOffset, 0, cells_bytes(cells, 0)) :
        cells \in [0..(MaxCells - 1) ->
                     {[signature |-> k.signature,
                       security_descriptor_size |-> k.security_descriptor_size,
                       flink |-> f] : k \in CellKinds, f \in CellOffsets \cup {EndOffset}}]}

\* read_cell_key_security(hive, security_key_offset, hbin_offset) is called
WalkEnter ==
    /\ walk = NoResult
    /\ \E start \in CellOffsets, hbin_offset \in {0, 32} :
          walk' = read_cell_key_security_enter(U32(start), U32(hbin_offset))
    /\ last_op' = "read_cell_key_security"
    /\ UNCHANGED <<hive, filter_vars, header_vars, enum_vars, decoder_vars, py_vars>>

\* the walk is in its loop
WalkRunning ==
    /\ walk # NoResult
    /\ walk.status = "running"

\* the loop turns once
WalkLoop ==
    /\ WalkRunning
    /\ walk' = [read_cell_key_security_loop(hive, walk, overflow_checks)
                  EXCEPT !.turns = 1 - walk.turns,
                         !.visited = push(walk.visited, walk.offset)]
    /\ last_op' = "loop"
    /\ UNCHANGED <<hive, filter_vars, header_vars, enum_vars, decoder_vars, py_vars>>

WalkNext ==
    \/ WalkEnter
    \/ WalkLoop

----------------------------------------------------------------------------
(* The sk walk's claims *)

\* the walk is over: it returned a value or ended in a panic
WalkOver ==
    /\ walk # NoResult
    /\ walk.status \in {"returned", "panicked"}

\* C17 as stated: read_cell_key_security returns after finitely many steps
\* for every chain of flink pointers, also one that loops among cells
\* without pointing back to the starting offset.
C17_Stated == (last_op = "read_cell_key_security") ~> WalkOver

\* the walk's starting offset and the offset of the hive bin, as numbers
WalkStart == as_usize(walk.security_key_offset)

WalkBase == as_usize(walk.hbin_offset)

\* the flink the buffer holds for the cell at an offset
FlinkAt(off) == as_usize(u32_from_le_bytes(hive, off + WalkBase + 8))

\* the descriptor of the cell at an offset: where it lies, and whether it decodes
BlobAt(off) ==
    [blob_at  |-> off + WalkBase + 24,
     blob_len |-> as_usize(u32_from_le_bytes(hive, off + WalkBase + 20))]

BlobDecodes(off) == BlobAt(off).blob_len > 0 /\ byte_at(hive, BlobAt(off).blob_at) = 1

\* the descriptors of the cells visited from the k-th on that decode, in visit order
RECURSIVE DescriptorsOf(_, _)
DescriptorsOf(vis, k) ==
    IF k > Len(vis) THEN <<>>
    ELSE (IF BlobDecodes(vis[k]) THEN <<BlobAt(vis[k])>> ELSE <<>>) \o DescriptorsOf(vis, k + 1)

\* C27: read_cell_key_security visits the sk cells in forward-link order
\* from the cell at the starting offset on, following each visited cell's
\* flink, and stops right after the first visited cell whose flink is the
\* starting offset; the descriptors returned are in visit order, one for
\* each visited cell whose descriptor decodes, and a list header whose flink
\* points to itself has exactly one cell visited.
C27_WalkOrder ==
    (walk # NoResult /\ Len(walk.visited) > 0) =>
        /\ walk.visited[1] = WalkStart
        /\ \A i \in 1..(Len(walk.visited) - 1) :
              /\ walk.visited[i + 1] = FlinkAt(walk.visited[i])
              /\ FlinkAt(walk.visited[i]) # WalkStart
        /\ (walk.status = "returned" /\ walk.ret.tag = "Ok") =>
              /\ FlinkAt(walk.visited[Len(walk.visited)]) = WalkStart
              /\ walk.ret.value = DescriptorsOf(walk.visited, 1)
              /\ FlinkAt(WalkStart) = WalkStart => Len(walk.visited) = 1

\* two cells were visited, the second links back, and one descriptor decoded
C27_Witness ==
    /\ walk # NoResult
    /\ walk.status = "returned"
    /\ walk.ret.tag = "Ok"
    /\ walk.visited = <<32, 0>>
    /\ ~BlobDecodes(32)
    /\ walk.ret.value = <<BlobAt(0)>>

\* a list header that points to itself
C27_WitnessHeader ==
    /\ walk # NoResult
    /\ walk.status = "returned"
    /\ walk.ret.tag = "Ok"
    /\ FlinkAt(WalkStart) = WalkStart
    /\ walk.visited = <<WalkStart>>

\* the cell read last
LastVisited == walk.visited[Len(walk.visited)]

\* an offset that lies outside the buffer, and one inside it where no sk
\* cell parses: another signature, or a descriptor that runs past the end
OutsideBuffer(off) == off + WalkBase >= hive.len

NotAnSkCell(off) ==
    /\ ~OutsideBuffer(off)
    /\ \/ <<byte_at(hive, off + WalkBase + 4), byte_at(hive, off + WalkBase + 5)>> # Signature_sk
       \/ ~fits_int(u32_from_le_bytes(hive, off + WalkBase + 20))
       \/ BlobAt(off).blob_at + BlobAt(off).blob_len > hive.len

\* C28 as stated: a visited cell whose descriptor fails to decode is skipped
\* and the walk goes on with its flink; a visited offset that does not
\* parse as an sk cell, or that lies outside the file buffer, makes
\* read_cell_key_security return an error value, and none of the
\* descriptors collected so far.
C28_Stated ==
    (walk # NoResult /\ Len(walk.visited) > 0) =>
        /\ \A i \in 1..(Len(walk.visited) - 1) :
              ~BlobDecodes(walk.visited[i]) => walk.visited[i + 1] = FlinkAt(walk.visited[i])
        /\ (walk.status # "running" /\ (OutsideBuffer(LastVisited) \/ NotAnSkCell(LastVisited))) =>
              (walk.status = "returned" /\ walk.ret.tag = "Err")

----------------------------------------------------------------------------
(* py_reg_parser.rs: PyRegParser, PyRegKeysIterator; the Parser they wrap *)

\* Option::None
None == [none |-> TRUE]

\* Parser::init_key_iter: the walk starts again at the first key
init_key_iter(prs) == [prs EXCEPT !.pos = 0]

\* Parser::next_key_preorder: the next key of the pre-order walk, None at its end
next_key_preorder(prs) ==
    IF prs.pos < Len(prs.keys)
    THEN [parser |-> [prs EXCEPT !.pos = prs.pos + 1], key |-> [some |-> prs.keys[prs.pos + 1]]]
    ELSE [parser |-> prs, key |-> None]

\* ParserIterator::new(&parser).iter(), parser.iter(): an iterator of its
\* own over the parser's keys, from the first key on
Parser_iter(prs) == [kind |-> "ParserIterator", inner |-> init_key_iter(prs), yielded |-> <<>>]

\* PyRegParser::new: the wrapper owns the parser
PyRegParser_new(prs) == [inner |-> prs, ret |-> None]

\* PyErr::new::<PyRuntimeError, _>(text)
PyRuntimeError(text) == [tag |-> "Err", error |-> "PyRuntimeError", text |-> text]

\* a bug: the parser stays in the wrapper, the iterator gets a copy
reg_keys_iterator_keeps_parser(slf) ==
    IF slf.inner = None
    THEN [slf |-> slf, it |-> None, ret |-> PyRuntimeError("PyRegParser can only be used once")]
    ELSE [slf |-> slf,
          it  |-> [kind |-> "PyRegKeysIterator", inner |-> init_key_iter(slf.inner), yielded |-> <<>>],
          ret |-> [tag |-> "Ok"]]

\* PyRegParser::reg_keys_iterator: self.inner.take() moves the parser into
\* the iterator returned; with nothing to take it is an error
reg_keys_iterator(slf) ==
    IF slf.inner = None
    THEN [slf |-> slf, it |-> None, ret |-> PyRuntimeError("PyRegParser can only be used once")]
    ELSE [slf |-> [slf EXCEPT !.inner = None],
          it  |-> [kind |-> "PyRegKeysIterator", inner |-> init_key_iter(slf.inner), yielded |-> <<>>],
          ret |-> [tag |-> "Ok"]]

\* PyRegKeysIterator::next, and the next() of the Rust iterator: both step
\* the parser the iterator holds
iterator_next(it) ==
    LET r == next_key_preorder(it.inner)
    IN  [it EXCEPT !.inner = r.parser,
                   !.yielded = IF r.key = None THEN @ ELSE Append(@, r.key.some)]

\* Parser::get_key(path, false), get_root_key, get_parent_key: the key of
\* that name, the first key of the hive and the key above (the first key is
\* above every other); a read of the hive may fail
get_key(prs, path, fails) ==
    IF fails THEN [tag |-> "Err", error |-> "read"]
    ELSE [tag |-> "Ok",
          key |-> IF \E i \in 1..Len(prs.keys) : prs.keys[i] = path THEN [some |-> path] ELSE None]

get_root_key(prs, fails) ==
    IF fails THEN [tag |-> "Err", error |-> "read"]
    ELSE [tag |-> "Ok", key |-> IF Len(prs.keys) > 0 THEN [some |-> prs.keys[1]] ELSE None]

get_parent_key(prs, key, fails) ==
    IF fails THEN [tag |-> "Err", error |-> "read"]
    ELSE [tag |-> "Ok",
          key |-> IF Len(prs.keys) > 0 /\ key # prs.keys[1] THEN [some |-> prs.keys[1]] ELSE None]

\* the tail the three look-ups share: the key found becomes a PyRegKey if
\* from_cell_key_node succeeds, the parser's error a RuntimeError
py_reg_key(r, converts) ==
    IF r.tag = "Err" THEN PyRuntimeError(r.error)
    ELSE IF r.key # None /\ converts
         THEN [tag |-> "Ok", value |-> r.key]
         ELSE [tag |-> "Ok", value |-> None]

\* PyRegParser::open
PyRegParser_open(slf, path, fails, converts) ==
    IF slf.inner = None
    THEN [tag |-> "Ok", value |-> None]
    ELSE py_reg_key(get_key(slf.inner, path, fails), converts)

\* a bug: a parser that was used up raises on root()
PyRegParser_root_raises(slf, fails, converts) ==
    IF slf.inner = None
    THEN PyRuntimeError("PyRegParser can only be used once")
    ELSE py_reg_key(get_root_key(slf.inner, fails), converts)

\* PyRegParser::root
PyRegParser_root(slf, fails, converts) ==
    IF slf.inner = None
    THEN [tag |-> "Ok", value |-> None]
    ELSE py_reg_key(get_root_key(slf.inner, fails), converts)

\* PyRegParser::get_parent
PyRegParser_get_parent(slf, key, fails, converts) ==
    IF slf.inner = None
    THEN [tag |-> "Ok", value |-> None]
    ELSE py_reg_key(get_parent_key(slf.inner, key, fails), converts)

----------------------------------------------------------------------------
(* The iteration's operations *)

\* the hives: their keys in pre-order
KeyLists == UNION {[1..n -> {"k1", "k2"}] : n \in 0..MaxKeys}

\* PyRegParser.reg_keys(), PyRegParser.__iter__()
RegKeys ==
    /\ LET r == reg_keys_iterator(py)
       IN  /\ py' = [r.slf EXCEPT !.ret = r.ret]
           /\ iters' = IF r.it = None THEN iters ELSE Append(iters, r.it)
    /\ Len(iters') <= MaxIters
    /\ last_op' = "reg_keys"
    /\ UNCHANGED <<parser, filter_vars, header_vars, enum_vars, decoder_vars, walk_vars>>

\* ParserIterator::new(&parser).iter(), parser.iter() in a Rust caller
ParserIter ==
    /\ Len(iters) < MaxIters
    /\ iters' = Append(iters, Parser_iter(parser))
    /\ last_op' = "iter"
    /\ UNCHANGED <<parser, py, filter_vars, header_vars, enum_vars, decoder_vars, walk_vars>>

\* next() on one of the iterators handed out
IterNext ==
    /\ \E i \in 1..Len(iters) :
          /\ Len(iters[i].yielded) < Len(parser.keys)
          /\ iters' = [iters EXCEPT ![i] = iterator_next(iters[i])]
    /\ last_op' = "next"
    /\ UNCHANGED <<parser, py, filter_vars, header_vars, enum_vars, decoder_vars, walk_vars>>

IterNext_end ==
    /\ \E i \in 1..Len(iters) :
          /\ iters[i].inner.pos = Len(parser.keys)
          /\ iters' = [iters EXCEPT ![i] = iterator_next(iters[i])]
    /\ last_op' = "next (end)"
    /\ UNCHANGED <<parser, py, filter_vars, header_vars, enum_vars, decoder_vars, walk_vars>>

IterationNext ==
    \/ RegKeys
    \/ ParserIter
    \/ IterNext
    \/ IterNext_end

\* the key names asked for: those of the hives and one of none
KeyNames == {"k1", "k2", "k3"}

\* PyRegParser.open(path)
Open ==
    /\ \E path \in KeyNames, fails \in BOOLEAN, converts \in BOOLEAN :
          py' = [py EXCEPT !.ret = PyRegParser_open(py, path, fails, converts)]
    /\ last_op' = "open"
    /\ UNCHANGED <<parser, iters, filter_vars, header_vars, enum_vars, decoder_vars, walk_vars>>

\* PyRegParser.root()
Root ==
    /\ \E fails \in BOOLEAN, converts \in BOOLEAN :
          py' = [py EXCEPT !.ret = PyRegParser_root(py, fails, converts)]
    /\ last_op' = "root"
    /\ UNCHANGED <<parser, iters, filter_vars, header_vars, enum_vars, decoder_vars, walk_vars>>

\* PyRegParser.get_parent(key)
GetParent ==
    /\ \E key \in KeyNames, fails \in BOOLEAN, converts \in BOOLEAN :
          py' = [py EXCEPT !.ret = PyRegParser_get_parent(py, key, fails, converts)]
    /\ last_op' = "get_parent"
    /\ UNCHANGED <<parser, iters, filter_vars, header_vars, enum_vars, decoder_vars, walk_vars>>

\* the calls on a PyRegParser and on the iterator it hands out
PyNext ==
    \/ RegKeys
    \/ Open
    \/ Root
    \/ GetParent
    \/ IterNext
    \/ IterNext_end

----------------------------------------------------------------------------
(* The iteration's claims *)

\* every iterator handed out has yielded the parser's keys from the first on
YieldsTheKeys ==
    \A i \in 1..Len(iters) :
        /\ Len(iters[i].yielded) <= Len(parser.keys)
        /\ iters[i].yielded = SubSeq(parser.keys, 1, Len(iters[i].yielded))

\* a request to iterate succeeded: a fresh iterator was handed out
Succeeds ==
    /\ Len(iters') = Len(iters) + 1
    /\ iters'[Len(iters')].yielded = <<>>
    /\ SubSeq(iters', 1, Len(iters)) = iters

\* an iteration over the PyRegParser's parser was started
PyIterationStarted == \E i \in 1..Len(iters) : iters[i].kind = "PyRegKeysIterator"

\* C16 as stated: after an iteration over a parser was started, a fresh
\* request to iterate the same parser succeeds and yields the same keys.
C16_Stated ==
    /\ []YieldsTheKeys
    /\ [][(last_op' \in {"reg_keys", "iter"} /\ Len(iters) > 0) => Succeeds]_vars

\* C16 amended: a fresh request to iterate a Parser (ParserIterator::new,
\* parser.iter()) succeeds and yields the same keys as every other; a
\* PyRegParser hands out one iterator, which yields these keys, and a fresh
\* request on it after that fails with "PyRegParser can only be used once".
C16_RestartableInRust ==
    /\ []YieldsTheKeys
    /\ [][last_op' = "iter" => Succeeds]_vars
    /\ [][last_op' = "reg_keys" =>
            IF PyIterationStarted
            THEN /\ py'.ret = PyRuntimeError("PyRegParser can only be used once")
                 /\ iters' = iters
            ELSE /\ py'.ret.tag = "Ok"
                 /\ Succeeds]_vars

\* a second reg_keys() was refused while the first iterator and a Rust
\* iterator started after it have both run to the end
C16_Witness ==
    /\ last_op = "reg_keys"
    /\ py.ret = PyRuntimeError("PyRegParser can only be used once")
    /\ Len(parser.keys) = 2
    /\ Len(iters) = 2
    /\ iters[1].kind = "PyRegKeysIterator"
    /\ iters[2].kind = "ParserIterator"
    /\ iters[1].yielded = parser.keys
    /\ iters[2].yielded = parser.keys

\* a look-up ran last
LookedUp == last_op \in {"open", "root", "get_parent"}

\* C26: a PyRegParser is single-use for iteration: once reg_keys() or
\* __iter__ was called on it, every later reg_keys()/__iter__ fails with
\* "PyRegParser can only be used once" and every later open, root and
\* get_parent returns None without raising, whatever calls are made; before
\* that, open, root and get_parent do not use the parser up, however often
\* they are called.
C26_SingleUse ==
    /\ [][PyIterationStarted => PyIterationStarted']_vars
    /\ [][(PyIterationStarted /\ last_op' = "reg_keys") =>
            /\ py'.ret = PyRuntimeError("PyRegParser can only be used once")
            /\ iters' = iters]_vars
    /\ [][(PyIterationStarted /\ LookedUp') => py'.ret = [tag |-> "Ok", value |-> None]]_vars
    /\ [][(~PyIterationStarted /\ LookedUp') => (py'.inner = parser /\ ~PyIterationStarted')]_vars
    /\ [][(~PyIterationStarted /\ LookedUp /\ last_op' = "reg_keys") =>
            (py'.ret.tag = "Ok" /\ Len(iters') = 1)]_vars

\* root() gave None for a hive that has a root, after the one iterator ran to its end
C26_Witness ==
    /\ last_op = "root"
    /\ PyIterationStarted
    /\ Len(parser.keys) = 2
    /\ iters[1].yielded = parser.keys
    /\ py.ret = [tag |-> "Ok", value |-> None]

\* open() found a key and the parser was not used up
C26_WitnessBefore ==
    /\ last_op = "open"
    /\ ~PyIterationStarted
    /\ py.ret = [tag |-> "Ok", value |-> [some |-> "k2"]]
    /\ py.inner = parser

----------------------------------------------------------------------------
(* The idle values of the cell decoders, the sk walk and the Python binding *)

DecoderIdle ==
    /\ overflow_checks = FALSE
    /\ offsets = NoResult

WalkIdle ==
    /\ hive = <<>>
    /\ walk = NoResult

PyIdle ==
    /\ parser = NoResult
    /\ py = NoResult
    /\ iters = <<>>

OthersIdle == DecoderIdle /\ WalkIdle /\ PyIdle

----------------------------------------------------------------------------
(* Specifications: one for each part of the parser *)

InitFilter == FilterIdle /\ HeaderIdle /\ EnumIdle /\ OthersIdle /\ last_op = "init"

SpecFilter == InitFilter /\ [][FilterNext]_vars

InitBuilder == FilterIdle /\ HeaderIdle /\ EnumIdle /\ OthersIdle /\ last_op = "init"

SpecBuilder == InitBuilder /\ [][BuilderNext]_vars

InitQuery == FilterIdle /\ HeaderIdle /\ EnumIdle /\ OthersIdle /\ last_op = "init"

SpecQuery == InitQuery /\ [][QueryNext]_vars

InitHeader ==
    /\ FilterIdle
    /\ EnumIdle
    /\ OthersIdle
    /\ input \in HeaderInputs
    /\ parsed = NoResult
    /\ xsum = NoResult
    /\ last_op = "init"

SpecHeader == InitHeader /\ [][HeaderNext]_vars

InitChecksum ==
    /\ FilterIdle
    /\ EnumIdle
    /\ OthersIdle
    /\ input \in ChecksumInputs
    /\ parsed = NoResult
    /\ xsum = NoResult
    /\ last_op = "init"

SpecChecksum == InitChecksum /\ [][ChecksumNext]_vars

InitEnum == FilterIdle /\ HeaderIdle /\ EnumIdle /\ OthersIdle /\ last_op = "init"

SpecEnum == InitEnum /\ [][EnumNext]_vars

InitDecoder ==
    /\ FilterIdle
    /\ EnumIdle
    /\ WalkIdle
    /\ PyIdle
    /\ input \in SkInputs \cup LfInputs
    /\ parsed = NoResult
    /\ xsum = NoResult
    /\ overflow_checks \in BOOLEAN
    /\ offsets = NoResult
    /\ last_op = "init"

SpecDecoder == InitDecoder /\ [][DecoderNext]_vars

InitWalk ==
    /\ FilterIdle
    /\ HeaderIdle
    /\ EnumIdle
    /\ PyIdle
    /\ overflow_checks \in BOOLEAN
    /\ offsets = NoResult
    /\ hive \in Hives
    /\ walk = NoResult
    /\ last_op = "init"

\* a call is made, and a walk in its loop takes its next turn
WalkFairness ==
    /\ WF_vars(WalkEnter)
    /\ (<>[]WalkRunning) => ([]<><<WalkLoop>>_vars)

SpecWalk == InitWalk /\ [][WalkNext]_vars /\ WalkFairness

InitIteration ==
    /\ FilterIdle
    /\ HeaderIdle
    /\ EnumIdle
    /\ DecoderIdle
    /\ WalkIdle
    /\ \E keys \in KeyLists :
          /\ parser = [keys |-> keys, pos |-> 0]
          /\ py = PyRegParser_new(parser)
    /\ iters = <<>>
    /\ last_op = "init"

SpecIteration == InitIteration /\ [][IterationNext]_vars

InitPy ==
    /\ FilterIdle
    /\ HeaderIdle
    /\ EnumIdle
    /\ DecoderIdle
    /\ WalkIdle
    /\ \E keys \in KeyLists :
          /\ parser = [keys |-> keys, pos |-> 0]
          /\ py = PyRegParser_new(parser)
    /\ iters = <<>>
    /\ last_op = "init"

SpecPy == InitPy /\ [][PyNext]_vars

Init == InitFilter

Next == FilterNext \/ BuilderNext \/ QueryNext \/ HeaderNext \/ ChecksumNext \/ EnumNext \/ DecoderNext \/ WalkNext \/ IterationNext \/ PyNext

====
